---- MODULE Spec2Model ----
(***************************************************************************)
(* Model of the algo-trade dashboard core: the Portfolio ledger            *)
(* (portfolio.js), the Decision Engine's evaluation cycle (ai-engine.js    *)
(* and App._evaluateRealAI) and the timer-driven playback control of the   *)
(* Market Simulator (market.js) and of the Replay Driver (real-market.js). *)
(*                                                                         *)
(* Money is modelled in whole dollars with exact arithmetic.  Values the   *)
(* code computes by division (avgCost, pnl, maxDrawdown, dailyReturns) are *)
(* exact rationals [n, d]; d = 0 stands for the non-finite doubles: n = 0  *)
(* is NaN, n = 1 is +Infinity and n = -1 is -Infinity.  Scores and         *)
(* confidences are carried in hundredths.                                  *)
(* The simulated instruments' prices are in cents, and what Math.random    *)
(* and the data source contribute are inputs drawn from small sets.        *)
(***************************************************************************)
EXTENDS Integers, Sequences, FiniteSets, TLC

VARIABLES
    pf,        \* the Portfolio ledger under test (one Portfolio object)
    hist,      \* the last two operations applied to pf, oldest first
    nOps,      \* number of operations applied to pf so far
    sim,       \* the Market Simulator (one MarketEngine object) and its timers
    real,      \* the Replay Driver (one RealMarketEngine object) and its timers
    fetches,   \* the history requests of loadSymbol still in flight
    app,       \* the App object: mode, its four ledgers and its Decision Engines
    evals,     \* counts of the evaluation cycles and loads so far, and a
               \* record of the last cycle
    trace      \* what the last engine operation was, the engine before it and
               \* the signals it emitted, with counts of the operations so far

ledgerVars == <<pf, hist, nOps>>

playbackVars == <<sim, real, fetches>>

appVars == <<app, evals>>

traceVars == <<trace>>

----------------------------------------------------------------------------
(* Bounds of the model *)

MaxOps == 3

\* ticks the Market Simulator produces
MaxTicks == 3

\* ticks the Market Simulator produces with its instruments followed (one
\* trading day and two ticks of the next)
MaxMarketTicks == 80

\* playback calls made on an engine whose signals are followed, by the
\* caller or by a listener
MaxCalls == 3

\* history requests issued to the data source in one run of the replay
MaxRequests == 2

\* pause, setSpeed and reset calls made on the Replay Driver in one run, by
\* the caller or by the second listener
MaxReplayCalls == 2

\* bars the Replay Driver reveals of one series
MaxReplayTicks == 3

\* market events in one run of the simulator
MaxEvents == 2

\* events are drawn in the first ticks of a run only
MaxEventTick == 4

\* setTimeout calls each engine makes
MaxTimers == 4

\* loadSymbol requests in flight at once
MaxInFlight == 1

(* Inputs *)

Symbols == {"NOVA", "STBL"}

\* the quotes an instrument trades at (ask for a buy, bid for a sell)
Quotes(s) == IF s = "NOVA" THEN {100, 120} ELSE {50}

\* what parseInt reads in the user trade form's quantity field: an integer,
\* or NaN for text that is no number
FormInputs ==
    { [nan |-> TRUE, v |-> 0] } \cup { [nan |-> FALSE, v |-> i] : i \in {-5, 0, 5, 150} }

\* parseInt(text) || 10: NaN and 0 are falsy
UserQty(i) == IF i.nan \/ i.v = 0 THEN 10 ELSE i.v

\* quantities the callers pass to buy and sell (the Decision Engine passes
\* integers >= 1, the user trade form any integer but 0)
Quantities == { UserQty(i) : i \in FormInputs }

StartingCash == 10000

----------------------------------------------------------------------------
(* Exact arithmetic on the values JavaScript computes by division *)

Sign(x) == IF x > 0 THEN 1 ELSE IF x < 0 THEN -1 ELSE 0

Abs(x) == IF x < 0 THEN -x ELSE x

RECURSIVE Gcd(_, _)
Gcd(a, b) == IF b = 0 THEN a ELSE Gcd(b, a % b)

Rat(n, d) ==
    IF d = 0 THEN [n |-> Sign(n), d |-> 0]
    ELSE LET g == Gcd(Abs(n), Abs(d))
         IN  [n |-> Sign(d) * (n \div g), d |-> Abs(d) \div g]

RatInt(i) == [n |-> i, d |-> 1]

IsFinite(r) == r.d # 0

IsNaN(r) == r.d = 0 /\ r.n = 0

\* r * k for an integer k (Infinity * 0 is NaN)
RatMulInt(r, k) == Rat(r.n * k, r.d)

\* r + k for an integer k
RatAddInt(r, k) == Rat(r.n + k * r.d, r.d)

\* r / k for an integer k (x / 0 is +-Infinity, 0 / 0 is NaN)
RatDivInt(r, k) ==
    IF r.d = 0 THEN [n |-> IF k < 0 THEN -r.n ELSE r.n, d |-> 0]
    ELSE Rat(r.n, r.d * k)

\* k - r for an integer k
IntMinusRat(k, r) == Rat(k * r.d - r.n, r.d)

\* a > b as JavaScript compares doubles (false when either is NaN)
RatGt(a, b) ==
    IF IsNaN(a) \/ IsNaN(b) THEN FALSE
    ELSE IF a.d = 0 /\ b.d = 0 THEN a.n > b.n
    ELSE IF a.d = 0 THEN a.n > 0
    ELSE IF b.d = 0 THEN b.n < 0
    ELSE a.n * b.d > b.n * a.d

RatGe(a, b) == a = b \/ RatGt(a, b)

----------------------------------------------------------------------------
(* Portfolio (portfolio.js) *)

\* new Portfolio(name, cash)
Portfolio(cash) ==
    [ startingCash |-> cash,
      cash         |-> cash,
      holdings     |-> << >>,
      trades       |-> << >>,
      tradeId      |-> 0,
      peakValue    |-> cash,
      maxDrawdown  |-> RatInt(0),
      dailyReturns |-> << >>,
      prevValue    |-> cash ]

\* reset(cash): cash || startingCash (0 and undefined are falsy)
reset(p, cash) ==
    LET c == IF cash # 0 THEN cash ELSE p.startingCash
    IN  [ p EXCEPT !.cash = c, !.holdings = << >>, !.trades = << >>,
                   !.tradeId = 0, !.peakValue = c,
                   !.maxDrawdown = RatInt(0), !.dailyReturns = << >>,
                   !.prevValue = c ]

\* this.holdings[symbol] is truthy
Held(p, symbol) == symbol \in DOMAIN p.holdings

\* the object with key k set to v
Put(f, k, v) == [x \in (DOMAIN f) \cup {k} |-> IF x = k THEN v ELSE f[x]]

\* delete f[k]
Delete(f, k) == [x \in (DOMAIN f) \ {k} |-> f[x]]

NextIdPostIncrement(p) == p.tradeId

\* ++this.tradeId
NextId(p) == p.tradeId + 1

\* the quantity buy() trades: qty clamped to what cash affords at price
BuyQty(p, qty, price) ==
    IF qty * price > p.cash THEN p.cash \div price ELSE qty

\* buy(symbol, qty, price, day, tick): the ledger after the call and what
\* it returns, << >> for null and <<trade>> for a trade record
buy(p, symbol, qty, price, day, tick) ==
    LET q == BuyQty(p, qty, price)
    IN  IF qty * price > p.cash /\ q <= 0
        THEN [pf |-> p, ret |-> << >>]
        ELSE
        LET totalCost == q * price
            h == IF Held(p, symbol) THEN p.holdings[symbol]
                 ELSE [qty |-> 0, avgCost |-> RatInt(0)]
            newTotal == h.qty + q
            avg == RatDivInt(RatAddInt(RatMulInt(h.avgCost, h.qty), totalCost),
                             newTotal)
            trade == [ id |-> NextId(p), symbol |-> symbol, side |-> "BUY",
                       qty |-> q, price |-> price, total |-> totalCost,
                       day |-> day, tick |-> tick ]
        IN  [ pf |-> [ p EXCEPT
                         !.cash = p.cash - totalCost,
                         !.holdings = Put(p.holdings, symbol,
                                          [qty |-> newTotal, avgCost |-> avg]),
                         !.tradeId = p.tradeId + 1,
                         !.trades = Append(p.trades, trade) ],
              ret |-> <<trade>> ]

Min(a, b) == IF a < b THEN a ELSE b

Max(a, b) == IF a > b THEN a ELSE b

\* the quantity sell() trades: qty clamped to the holding
SellQty(h, qty) == Min(qty, h.qty)

RealizedPnlWholeBasis(h, q, revenue) ==
    IntMinusRat(revenue, RatMulInt(h.avgCost, h.qty))

\* the revenue booked as the realized P&L
RealizedPnlNoBasis(h, q, revenue) == RatInt(revenue)

\* realized P&L of selling q shares of holding h: revenue - q * avgCost
RealizedPnl(h, q, revenue) == IntMinusRat(revenue, RatMulInt(h.avgCost, q))

SellHoldingsKeepsEmptied(p, symbol, q) ==
    LET h == p.holdings[symbol]
    IN  IF h.qty - q < 0 THEN Delete(p.holdings, symbol)
        ELSE Put(p.holdings, symbol, [h EXCEPT !.qty = h.qty - q])

SellHoldingsNoDecrement(p, symbol, q) ==
    LET h == p.holdings[symbol]
    IN  IF h.qty <= 0 THEN Delete(p.holdings, symbol) ELSE p.holdings

\* the holdings map after selling q of symbol
SellHoldings(p, symbol, q) ==
    LET h == p.holdings[symbol]
    IN  IF h.qty - q <= 0 THEN Delete(p.holdings, symbol)
        ELSE Put(p.holdings, symbol, [h EXCEPT !.qty = h.qty - q])

\* sell(symbol, qty, price, day, tick)
sell(p, symbol, qty, price, day, tick) ==
    IF ~Held(p, symbol) \/ p.holdings[symbol].qty <= 0
    THEN [pf |-> p, ret |-> << >>]
    ELSE
    LET h == p.holdings[symbol]
        q == SellQty(h, qty)
    IN  IF q <= 0 THEN [pf |-> p, ret |-> << >>]
        ELSE
        LET revenue == q * price
            pnl == RealizedPnl(h, q, revenue)
            trade == [ id |-> NextId(p), symbol |-> symbol, side |-> "SELL",
                       qty |-> q, price |-> price, total |-> revenue,
                       pnl |-> pnl, day |-> day, tick |-> tick ]
        IN  [ pf |-> [ p EXCEPT
                         !.cash = p.cash + revenue,
                         !.holdings = SellHoldings(p, symbol, q),
                         !.tradeId = p.tradeId + 1,
                         !.trades = Append(p.trades, trade) ],
              ret |-> <<trade>> ]

\* marketPrices[sym] || 0
PriceOf(marketPrices, sym) ==
    IF sym \in DOMAIN marketPrices THEN marketPrices[sym] ELSE 0

RECURSIVE SumHoldings(_, _, _)
SumHoldings(holdings, marketPrices, syms) ==
    IF syms = {} THEN 0
    ELSE LET s == CHOOSE x \in syms : TRUE
         IN  holdings[s].qty * PriceOf(marketPrices, s)
             + SumHoldings(holdings, marketPrices, syms \ {s})

\* totalValue(marketPrices)
totalValue(p, marketPrices) ==
    p.cash + SumHoldings(p.holdings, marketPrices, DOMAIN p.holdings)

\* a + b
RatAdd(a, b) == Rat(a.n * b.d + b.n * a.d, a.d * b.d)

\* unrealizedPnL(marketPrices): the sum of (price - avgCost) * qty
RECURSIVE SumUnrealized(_, _, _)
SumUnrealized(holdings, marketPrices, syms) ==
    IF syms = {} THEN RatInt(0)
    ELSE LET s == CHOOSE x \in syms : TRUE
             h == holdings[s]
         IN  RatAdd(RatMulInt(IntMinusRat(PriceOf(marketPrices, s), h.avgCost), h.qty),
                    SumUnrealized(holdings, marketPrices, syms \ {s}))

unrealizedPnL(p, marketPrices) ==
    SumUnrealized(p.holdings, marketPrices, DOMAIN p.holdings)

\* realizedPnL(): the sum of pnl over the records that carry one
RECURSIVE SumPnl(_, _)
SumPnl(trades, i) ==
    IF i = 0 THEN RatInt(0)
    ELSE IF "pnl" \in DOMAIN trades[i]
         THEN RatAdd(trades[i].pnl, SumPnl(trades, i - 1))
         ELSE SumPnl(trades, i - 1)

realizedPnL(p) == SumPnl(p.trades, Len(p.trades))

\* totalPnL(marketPrices)
totalPnL(p, marketPrices) == totalValue(p, marketPrices) - p.startingCash

MaxDrawdownLatest(p, dd) == dd

\* if (dd > this.maxDrawdown) this.maxDrawdown = dd
MaxDrawdownAfter(p, dd) == IF RatGt(dd, p.maxDrawdown) THEN dd ELSE p.maxDrawdown

\* updateMetrics(marketPrices)
updateMetrics(p, marketPrices) ==
    LET val == totalValue(p, marketPrices)
        peak == IF val > p.peakValue THEN val ELSE p.peakValue
        dd == IF peak > 0 THEN Rat((peak - val) * 100, peak) ELSE RatInt(0)
        mdd == MaxDrawdownAfter(p, dd)
        rets == IF p.prevValue > 0
                THEN Append(p.dailyReturns, Rat(val - p.prevValue, p.prevValue))
                ELSE p.dailyReturns
    IN  [ p EXCEPT !.peakValue = peak, !.maxDrawdown = mdd,
                   !.dailyReturns = rets, !.prevValue = val ]

----------------------------------------------------------------------------
(* The ledger driven by its callers *)

\* price maps handed to totalValue / updateMetrics: every quote of the
\* market, or a map that lacks a symbol
PriceMaps ==
    { [s \in Symbols |-> IF s = "NOVA" THEN 100 ELSE 50],
      [s \in Symbols |-> IF s = "NOVA" THEN 120 ELSE 50],
      [s \in {"STBL"} |-> 50] }

\* day and tick stamps the callers pass (market.day, market.tick)
Stamps == { [day |-> 0, tick |-> 1] }

\* one call on the ledger: its arguments, the ledger before it and what it
\* returned
Op(name, symbol, qty, price, prices, before, ret) ==
    [ op |-> name, symbol |-> symbol, qty |-> qty, price |-> price,
      prices |-> prices, before |-> before, ret |-> ret ]

NoPrices == [s \in {} |-> 0]

NoOp == Op("new", "-", 0, 0, NoPrices, Portfolio(StartingCash), << >>)

Record(h, o) == <<h[2], o>>

last == hist[2]

prev == hist[1]

LedgerInit ==
    /\ pf = Portfolio(StartingCash)
    /\ hist = <<NoOp, NoOp>>
    /\ nOps = 0

Buy ==
    \E s \in Symbols, q \in Quantities, st \in Stamps : \E p \in Quotes(s) :
        LET r == buy(pf, s, q, p, st.day, st.tick)
        IN  /\ nOps < MaxOps
            /\ pf' = r.pf
            /\ hist' = Record(hist, Op("buy", s, q, p, NoPrices, pf, r.ret))
            /\ nOps' = nOps + 1
            /\ UNCHANGED <<playbackVars, appVars, traceVars>>

Sell ==
    \E s \in Symbols, q \in Quantities, st \in Stamps : \E p \in Quotes(s) :
        LET r == sell(pf, s, q, p, st.day, st.tick)
        IN  /\ nOps < MaxOps
            /\ pf' = r.pf
            /\ hist' = Record(hist, Op("sell", s, q, p, NoPrices, pf, r.ret))
            /\ nOps' = nOps + 1
            /\ UNCHANGED <<playbackVars, appVars, traceVars>>

UpdateMetrics ==
    \E pm \in PriceMaps :
        /\ nOps < MaxOps
        /\ pf' = updateMetrics(pf, pm)
        /\ hist' = Record(hist, Op("updateMetrics", "-", 0, 0, pm, pf, << >>))
        /\ nOps' = nOps + 1
        /\ UNCHANGED <<playbackVars, appVars, traceVars>>

Reset ==
    /\ nOps < MaxOps
    /\ pf' = reset(pf, 0)
    /\ hist' = Record(hist, Op("reset", "-", 0, 0, NoPrices, pf, << >>))
    /\ nOps' = nOps + 1
    /\ UNCHANGED <<playbackVars, appVars, traceVars>>

LedgerNext == Buy \/ Sell \/ UpdateMetrics \/ Reset

----------------------------------------------------------------------------
(* Playback control of the Market Simulator (market.js)                     *)
(*                                                                          *)
(* An engine record carries, next to the object's fields, the timeouts it   *)
(* has pending in the browser (timers) and the id its next setTimeout call  *)
(* returns (nextTimer); intervalId = 0 stands for null.                     *)

TicksPerDay == 78

SimBaseInterval == 385

RealBaseInterval == 800

\* the speed buttons (1x, 5x, ...)
Speeds == {1, 5}

\* Math.max(10, baseInterval / speed)
Delay(base, speed) == Max(10, base \div speed)

\* what a listener may call on the engine while a signal is delivered to it:
\* nothing, or one of the playback controls
Calls ==
    { [m |-> "play", s |-> 0], [m |-> "pause", s |-> 0], [m |-> "reset", s |-> 0] }
    \cup { [m |-> "setSpeed", s |-> s] : s \in Speeds }

Scripts == { << >> } \cup { <<c>> : c \in Calls }

\* Math.max(0.01, ...): the price floor, in cents
PriceFloor == 1

\* eventLog keeps the 100 most recent events
EventLogCap == 100

\* COMPANIES[..].basePrice, in cents
BasePrice(s) == IF s = "NOVA" THEN 18500 ELSE 7200

\* SCENARIOS keys, and a name that is none of them
ScenarioNames == {"normal", "crash", "none"}

\* SCENARIOS[name] || SCENARIOS.normal
Scenario(name) == IF name = "crash" THEN "crash" ELSE "normal"

\* one entry of this.stocks as _initStocks() makes it; prices are in cents,
\* tickHistory and dayPrices are carried by their lengths, the event effect
\* is an exact rational in thousandths, the event volatility is in tenths,
\* and volume, bid and ask are left out
InitStock(s) ==
    [ basePrice |-> BasePrice(s), price |-> BasePrice(s), open |-> BasePrice(s),
      high |-> BasePrice(s), low |-> BasePrice(s), close |-> BasePrice(s),
      history |-> << >>, tickHistory |-> 0, dayPrices |-> 0,
      eventEffect |-> RatInt(0), eventVol |-> 10, eventTicks |-> 0 ]

\* _initStocks()
InitStocks == [s \in Symbols |-> InitStock(s)]

\* new MarketEngine()
MarketEngine ==
    [ paused |-> TRUE, speed |-> 1, intervalId |-> 0, tick |-> 0, day |-> 0,
      timers |-> {}, nextTimer |-> 1,
      scenario |-> "normal", stocks |-> InitStocks,
      activeEvents |-> << >>, eventLog |-> << >> ]

\* clearTimeout(id)
ClearTimeout(timers, id) == { t \in timers : t.id # id }

\* _schedule() up to the setTimeout call
MarketSchedule(e) ==
    IF e.paused THEN e
    ELSE [ e EXCEPT
             !.intervalId = e.nextTimer,
             !.timers = @ \cup { [id |-> e.nextTimer,
                                  delay |-> Delay(SimBaseInterval, e.speed)] },
             !.nextTimer = @ + 1 ]

\* pause()
MarketPause(e) ==
    [ e EXCEPT !.paused = TRUE,
               !.timers = IF e.intervalId # 0 THEN ClearTimeout(@, e.intervalId)
                          ELSE @,
               !.intervalId = 0 ]

\* play()
MarketPlay(e) ==
    IF ~e.paused THEN e
    ELSE MarketSchedule([e EXCEPT !.paused = FALSE])

\* setSpeed(s)
MarketSetSpeed(e, s) ==
    LET e1 == [e EXCEPT !.speed = s]
    IN  IF ~e1.paused THEN MarketPlay(MarketPause(e1)) ELSE e1

\* reset()
MarketReset(e) ==
    [ MarketPause(e) EXCEPT !.tick = 0, !.day = 0, !.activeEvents = << >>,
                            !.eventLog = << >>, !.stocks = InitStocks ]

\* setScenario(name)
MarketSetScenario(e, name) == [e EXCEPT !.scenario = Scenario(name)]

\* _tick(): its tick and day counters alone
MarketTick(e) ==
    LET intraIndex == e.tick % TicksPerDay
        isNewDay == intraIndex = 0 /\ e.tick > 0
    IN  [ e EXCEPT !.day = IF isNewDay THEN @ + 1 ELSE @,
                   !.tick = @ + 1 ]

\* one call a listener makes on the simulator
MarketApply(e, c) ==
    CASE c.m = "play" -> MarketPlay(e)
      [] c.m = "pause" -> MarketPause(e)
      [] c.m = "reset" -> MarketReset(e)
      [] c.m = "setSpeed" -> MarketSetSpeed(e, c.s)

\* emit(evt, data): the listeners run, making the calls of script
RECURSIVE MarketEmit(_, _)
MarketEmit(e, script) ==
    IF script = << >> THEN e
    ELSE MarketEmit(MarketApply(e, Head(script)), Tail(script))

\* what Math.random leaves s.price + noise + drift at, before the floor is
\* applied, in cents
RawPrices(s) == IF s = "NOVA" THEN {-100, 18000} ELSE {7200}

\* what _maybeEvent draws: no event, or a template of MARKET_EVENTS, a
\* symbol, an effect within the template's priceEffect (in thousandths) and
\* a duration within its duration range
EventDraws ==
    { << >>,
      << [type |-> "fda_approval", symbol |-> "NOVA", effect |-> 60,
          volEffect |-> 25, dur |-> 3] >>,
      << [type |-> "downgrade", symbol |-> "NOVA", effect |-> -50,
          volEffect |-> 18, dur |-> 4] >> }

\* the prices a draw can leave the instruments at
PriceDraws == { f \in [Symbols -> UNION { RawPrices(s) : s \in Symbols }] :
                  \A s \in Symbols : f[s] \in RawPrices(s) }

NoGap == [s \in Symbols |-> 0]

\* the random draws a _tick() of engine e makes: the day's opening prices
\* (drawn on the first tick of a day only), the event, the updated prices
DrawsOf(e) ==
    { [open |-> o, event |-> ev, price |-> p] :
        o \in (IF e.tick % TicksPerDay = 0 THEN PriceDraws ELSE {NoGap}),
        ev \in (IF Len(e.activeEvents) < MaxEvents /\ e.tick < MaxEventTick
                THEN EventDraws ELSE { << >> }),
        p \in PriceDraws }

\* _closeDay() up to its 'dayClose' signal
CloseDay(e) ==
    [ e EXCEPT !.stocks =
        [ s \in Symbols |->
            [ e.stocks[s] EXCEPT
                          !.close = e.stocks[s].price,
                          !.history = Append(@, [ time |-> e.day, open |-> e.stocks[s].open,
                                                  high |-> e.stocks[s].high,
                                                  low |-> e.stocks[s].low,
                                                  close |-> e.stocks[s].price ]) ] ] ]

\* _openDay(), the gap leaving s.price + gap at raw[s]
OpenDay(e, raw) ==
    [ e EXCEPT !.stocks =
        [ s \in Symbols |->
            LET p == Max(PriceFloor, raw[s])
            IN  [ e.stocks[s] EXCEPT !.price = p, !.open = p, !.high = p, !.low = p,
                              !.dayPrices = 1 ] ] ]

\* _maybeEvent() adding the new duration to what is left of the earlier one
MaybeEventCarriesOver(e, ev) ==
    IF ev = << >> THEN e
    ELSE LET x == ev[1]
             evt == [type |-> x.type, symbol |-> x.symbol]
             log == Append(e.eventLog, evt)
         IN  [ e EXCEPT !.stocks[x.symbol].eventEffect = Rat(x.effect, x.dur),
                        !.stocks[x.symbol].eventVol = x.volEffect,
                        !.stocks[x.symbol].eventTicks = @ + x.dur,
                        !.activeEvents = Append(@, evt),
                        !.eventLog = IF Len(log) > EventLogCap THEN Tail(log) ELSE log ]

\* _maybeEvent(), ev being what it draws
MaybeEvent(e, ev) ==
    IF ev = << >> THEN e
    ELSE LET x == ev[1]
             evt == [type |-> x.type, symbol |-> x.symbol]
             log == Append(e.eventLog, evt)
         IN  [ e EXCEPT !.stocks[x.symbol].eventEffect = Rat(x.effect, x.dur),
                        !.stocks[x.symbol].eventVol = x.volEffect,
                        !.stocks[x.symbol].eventTicks = x.dur,
                        !.activeEvents = Append(@, evt),
                        !.eventLog = IF Len(log) > EventLogCap THEN Tail(log) ELSE log ]

\* _updatePrice(s) leaving the effect and the multiplier of a finished event
UpdatePriceKeepsEffect(s, raw) ==
    LET p == Max(PriceFloor, raw)
    IN  [ s EXCEPT !.price = p,
                   !.eventTicks = IF @ > 0 THEN @ - 1 ELSE @,
                   !.high = Max(@, p), !.low = Min(@, p), !.close = p,
                   !.dayPrices = @ + 1, !.tickHistory = @ + 1 ]

UpdatePriceNoFloor(s, raw) ==
    LET p == raw
        over == s.eventTicks > 0 /\ s.eventTicks - 1 <= 0
    IN  [ s EXCEPT !.price = p,
                   !.eventTicks = IF @ > 0 THEN @ - 1 ELSE @,
                   !.eventEffect = IF over THEN RatInt(0) ELSE @,
                   !.eventVol = IF over THEN 10 ELSE @,
                   !.high = Max(@, p), !.low = Min(@, p), !.close = p,
                   !.dayPrices = @ + 1, !.tickHistory = @ + 1 ]

\* _updatePrice(s), the random walk leaving the price at raw before the floor
UpdatePrice(s, raw) ==
    LET p == Max(PriceFloor, raw)
        over == s.eventTicks > 0 /\ s.eventTicks - 1 <= 0
    IN  [ s EXCEPT !.price = p,
                   !.eventTicks = IF @ > 0 THEN @ - 1 ELSE @,
                   !.eventEffect = IF over THEN RatInt(0) ELSE @,
                   !.eventVol = IF over THEN 10 ELSE @,
                   !.high = Max(@, p), !.low = Min(@, p), !.close = p,
                   !.dayPrices = @ + 1, !.tickHistory = @ + 1 ]

\* _tick() in full with the draws d, the listeners making the calls of
\* onDayClose while 'dayClose' is delivered and of onTick while 'tick' is
TickWith(e, d, onDayClose, onTick) ==
    LET intraIndex == e.tick % TicksPerDay
        isNewDay == intraIndex = 0 /\ e.tick > 0
        e1 == IF isNewDay
              THEN [ MarketEmit(CloseDay(e), onDayClose) EXCEPT !.day = @ + 1 ]
              ELSE e
        e2 == IF intraIndex = 0 THEN OpenDay(e1, d.open) ELSE e1
        e3 == MaybeEvent(e2, d.event)
        e4 == [ e3 EXCEPT !.stocks = [s \in Symbols |-> UpdatePrice(@[s], d.price[s])] ]
    IN  MarketEmit([e4 EXCEPT !.tick = @ + 1], onTick)

\* the timer callback with _tick() in full
TimeoutWith(e, t, d, onDayClose, onTick) ==
    MarketSchedule(TickWith([e EXCEPT !.timers = @ \ {t}], d, onDayClose, onTick))

\* the callback _schedule() hands to setTimeout, run when timer t fires:
\* _tick(), whose last statement emits 'tick', then _schedule()
MarketTimeout(e, t, script) ==
    LET e1 == [e EXCEPT !.timers = @ \ {t}]
    IN  MarketSchedule(MarketEmit(MarketTick(e1), script))

----------------------------------------------------------------------------
(* The Replay Driver (real-market.js) *)

RealSymbols == {"AAPL", "MSFT"}

\* symbol as typed; loadSymbol upper-cases it
Typed == {"aapl", "MSFT"}

ToUpperCase(s) == IF s = "aapl" THEN "AAPL" ELSE s

\* one daily bar of the data source
Bar(sym, date, open, close) ==
    [ date |-> date, symbol |-> sym, open |-> open, high |-> Max(open, close) + 1,
      low |-> Min(open, close) - 1, close |-> close, volume |-> 1000 ]

\* the closing prices the data source holds for a symbol, oldest first
Closes(sym) ==
    IF sym = "AAPL" THEN <<102, 98>>
    ELSE <<51, 54, 52, 50, 53, 55, 52, 50, 49, 51>>

\* the daily bars the data source returns for a symbol
Series(sym) ==
    LET c == Closes(sym)
    IN  [ i \in 1..Len(c) |-> Bar(sym, i, IF i = 1 THEN c[1] ELSE c[i - 1], c[i]) ]

\* how a history request ends: a series, an empty series, or an HTTP error
Outcomes == {"ok", "empty", "http"}

\* new RealMarketEngine()
RealMarketEngine ==
    [ symbol |-> "AAPL", symbolInfo |-> "", candles |-> << >>,
      replayIndex |-> 0, replayCandles |-> << >>, paused |-> TRUE,
      speed |-> 1, intervalId |-> 0, loading |-> FALSE, error |-> "",
      range |-> "1y", day |-> 0, tick |-> 0,
      timers |-> {}, nextTimer |-> 1 ]

\* pause()
RealPause(e) ==
    [ e EXCEPT !.paused = TRUE,
               !.timers = IF e.intervalId # 0 THEN ClearTimeout(@, e.intervalId)
                          ELSE @,
               !.intervalId = 0 ]

\* _schedule() up to the setTimeout call
RealSchedule(e) ==
    IF e.paused THEN e
    ELSE [ e EXCEPT
             !.intervalId = e.nextTimer,
             !.timers = @ \cup { [id |-> e.nextTimer,
                                  delay |-> Delay(RealBaseInterval, e.speed)] },
             !.nextTimer = @ + 1 ]

\* play()
RealPlay(e) ==
    IF ~e.paused THEN e
    ELSE IF Len(e.candles) = 0 THEN e
    ELSE IF e.replayIndex >= Len(e.candles) THEN e
    ELSE RealSchedule([e EXCEPT !.paused = FALSE])

\* setSpeed(s)
RealSetSpeed(e, s) ==
    LET e1 == [e EXCEPT !.speed = s]
    IN  IF ~e1.paused THEN RealPlay(RealPause(e1)) ELSE e1

\* _advanceReplay() up to its 'tick' signal: the next bar is revealed
RealReveal(e) ==
    [ e EXCEPT !.replayCandles = Append(@, e.candles[e.replayIndex + 1]),
               !.day = e.replayIndex,
               !.tick = @ + 1 ]

\* _advanceReplay() with no listener calling back
RealAdvance(e) ==
    IF e.replayIndex >= Len(e.candles) THEN e
    ELSE [ RealReveal(e) EXCEPT !.replayIndex = @ + 1 ]

\* reset()
RealReset(e) ==
    LET e1 == [ RealPause(e) EXCEPT !.replayIndex = 0, !.replayCandles = << >>,
                                    !.day = 0, !.tick = 0 ]
    IN  IF Len(e1.candles) > 0 THEN RealAdvance(e1) ELSE e1

\* one call a listener makes on the replay driver
RealApply(e, c) ==
    CASE c.m = "play" -> RealPlay(e)
      [] c.m = "pause" -> RealPause(e)
      [] c.m = "reset" -> RealReset(e)
      [] c.m = "setSpeed" -> RealSetSpeed(e, c.s)

\* emit(evt, data): the listeners run, making the calls of script
RECURSIVE RealEmit(_, _)
RealEmit(e, script) ==
    IF script = << >> THEN e
    ELSE RealEmit(RealApply(e, Head(script)), Tail(script))

\* _advanceReplay(): the bar is revealed, 'tick' and 'dayClose' are emitted,
\* then replayIndex++
RealAdvanceReplay(e, script) ==
    IF e.replayIndex >= Len(e.candles) THEN e
    ELSE [ RealEmit(RealReveal(e), script) EXCEPT !.replayIndex = @ + 1 ]

\* the callback _schedule() hands to setTimeout, run when timer t fires
RealTimeout(e, t, script) ==
    LET e1 == [e EXCEPT !.timers = @ \ {t}]
    IN  IF e1.replayIndex < Len(e1.candles)
        THEN RealSchedule(RealAdvanceReplay(e1, script))
        ELSE RealEmit([e1 EXCEPT !.paused = TRUE], script)

\* loadSymbol(symbol, range) up to its await: the request is in flight
RealLoadStart(e, symbol, range) ==
    [ RealPause(e) EXCEPT !.loading = TRUE, !.error = "",
                          !.symbol = ToUpperCase(symbol), !.range = range ]

\* loadSymbol after its await, the history having arrived
RealLoaded(e, data) ==
    RealAdvance([ e EXCEPT !.symbolInfo = data.symbol,
                           !.candles = data.candles,
                           !.replayIndex = 0, !.replayCandles = << >>,
                           !.day = 0, !.tick = 0, !.loading = FALSE ])

RealLoadFailedStillLoading(e, message) ==
    [ e EXCEPT !.error = message ]

\* loadSymbol's catch block
RealLoadFailed(e, message) ==
    [ e EXCEPT !.loading = FALSE, !.error = message ]

\* the end of loadSymbol for request req with the given outcome
RealLoadEnd(e, req, outcome) ==
    IF outcome = "http" THEN RealLoadFailed(e, "HTTP 500")
    ELSE IF outcome = "empty" THEN RealLoadFailed(e, "No historical data available")
    ELSE RealLoaded(e, [symbol |-> req.symbol, candles |-> Series(req.symbol)])

----------------------------------------------------------------------------
(* The engines driven by their callers, their timers and the data source *)

PlaybackInit ==
    /\ sim = MarketEngine
    /\ real = RealMarketEngine
    /\ fetches = << >>

SimPlay ==
    /\ sim.nextTimer <= MaxTimers
    /\ sim' = MarketPlay(sim)
    /\ UNCHANGED <<real, fetches, ledgerVars, appVars, traceVars>>

SimPause ==
    /\ sim' = MarketPause(sim)
    /\ UNCHANGED <<real, fetches, ledgerVars, appVars, traceVars>>

SimSetSpeed ==
    \E s \in Speeds :
        /\ sim.nextTimer <= MaxTimers
        /\ sim' = MarketSetSpeed(sim, s)
        /\ UNCHANGED <<real, fetches, ledgerVars, appVars, traceVars>>

SimReset ==
    /\ sim' = MarketReset(sim)
    /\ UNCHANGED <<real, fetches, ledgerVars, appVars, traceVars>>

\* a pending timeout of the simulator fires
SimTimeout ==
    \E t \in sim.timers, script \in Scripts :
        /\ sim.tick < MaxTicks
        /\ sim.nextTimer + 1 <= MaxTimers
        /\ sim' = MarketTimeout(sim, t, script)
        /\ UNCHANGED <<real, fetches, ledgerVars, appVars, traceVars>>

ReplayPlay ==
    /\ real.nextTimer <= MaxTimers
    /\ real' = RealPlay(real)
    /\ UNCHANGED <<sim, fetches, ledgerVars, appVars, traceVars>>

ReplayPause ==
    /\ real' = RealPause(real)
    /\ UNCHANGED <<sim, fetches, ledgerVars, appVars, traceVars>>

ReplaySetSpeed ==
    \E s \in Speeds :
        /\ real.nextTimer <= MaxTimers
        /\ real' = RealSetSpeed(real, s)
        /\ UNCHANGED <<sim, fetches, ledgerVars, appVars, traceVars>>

ReplayReset ==
    /\ real' = RealReset(real)
    /\ UNCHANGED <<sim, fetches, ledgerVars, appVars, traceVars>>

\* a pending timeout of the replay driver fires
ReplayTimeout ==
    \E t \in real.timers, script \in Scripts :
        /\ real.nextTimer + 1 <= MaxTimers
        /\ real' = RealTimeout(real, t, script)
        /\ UNCHANGED <<sim, fetches, ledgerVars, appVars, traceVars>>

\* loadSymbol is called
LoadSymbol ==
    \E symbol \in Typed :
        /\ Len(fetches) < MaxInFlight
        /\ real' = RealLoadStart(real, symbol, "1y")
        /\ fetches' = Append(fetches, [symbol |-> real'.symbol, range |-> "1y"])
        /\ UNCHANGED <<sim, ledgerVars, appVars, traceVars>>

\* a history request in flight resolves or fails
LoadEnd ==
    \E i \in 1..Len(fetches), outcome \in Outcomes :
        /\ real' = RealLoadEnd(real, fetches[i], outcome)
        /\ fetches' = SubSeq(fetches, 1, i - 1) \o SubSeq(fetches, i + 1, Len(fetches))
        /\ UNCHANGED <<sim, ledgerVars, appVars, traceVars>>

PlaybackNext ==
    \/ SimPlay \/ SimPause \/ SimSetSpeed \/ SimReset \/ SimTimeout
    \/ ReplayPlay \/ ReplayPause \/ ReplaySetSpeed \/ ReplayReset
    \/ ReplayTimeout \/ LoadSymbol \/ LoadEnd

----------------------------------------------------------------------------
(* The Market Simulator with its instruments, driven by its callers, its    *)
(* timers and its listeners                                                  *)

\* the record of an operation on an engine: its name, the engine before it
\* (for a tick, the day and the bars before it) and the calls the listeners
\* made during it
Call(name, before, signals) == [name |-> name, before |-> before, signals |-> signals]

NoCall ==
    [ name |-> "new", before |-> MarketEngine, signals |-> << >>,
      wasDone |-> FALSE, script |-> << >>, outcome |-> "" ]

TraceInit ==
    trace = [ calls |-> 0, op |-> NoCall, loaded |-> FALSE, done |-> FALSE,
              issued |-> << >>, ends |-> << >>, snap |-> << >> ]

\* the calls the listeners make in one operation
Reentries(scripts) == Len(scripts[1]) + Len(scripts[2])

Traced(name, before, signals, calls) ==
    [ trace EXCEPT !.calls = @ + calls, !.op = Call(name, before, signals) ]

\* the bars closed so far
Bars(e) == [s \in Symbols |-> e.stocks[s].history]

Digest(e) == [day |-> e.day, bars |-> Bars(e)]

\* the signals _tick() emits on engine e, in order, the listeners making the
\* calls of onDayClose while 'dayClose' is delivered: 'dayClose' with its day
\* and the bars each instrument holds at that time, then 'tick'
TickEmits(e, onDayClose) ==
    LET intraIndex == e.tick % TicksPerDay
        isNewDay == intraIndex = 0 /\ e.tick > 0
        e1 == IF isNewDay
              THEN [ MarketEmit(CloseDay(e), onDayClose) EXCEPT !.day = @ + 1 ]
              ELSE e
    IN  (IF isNewDay
         THEN << [ evt |-> "dayClose", day |-> e.day,
                   bars |-> [s \in Symbols |-> Len(CloseDay(e).stocks[s].history)] ] >>
         ELSE << >>)
        \o << [ evt |-> "tick", tick |-> e1.tick + 1, day |-> e1.day,
                intraIndex |-> intraIndex ] >>

\* the event state of the instruments
EventState(e) ==
    [ s \in Symbols |-> [ effect |-> e.stocks[s].eventEffect,
                          vol |-> e.stocks[s].eventVol,
                          ticks |-> e.stocks[s].eventTicks ] ]

\* what is kept of a tick: the engine's counters, bars, event state and
\* event log before it, the event it drew and the signals it emitted
TickDigest(e, d, onDayClose) ==
    [ tick |-> e.tick, day |-> e.day, bars |-> Bars(e),
      events |-> EventState(e), log |-> e.eventLog, event |-> d.event,
      emitted |-> TickEmits(e, onDayClose) ]

\* setTimeout's handles are opaque: the pending timers are numbered 1..n in
\* the order they were set, a handle of a timer no longer pending is n + 1
Renumber(e) ==
    LET ids == { t.id : t \in e.timers }
        n == Cardinality(ids)
        Rank(i) == Cardinality({ j \in ids : j <= i })
    IN  [ e EXCEPT !.timers = { [id |-> Rank(t.id), delay |-> t.delay] : t \in e.timers },
                   !.intervalId = IF @ = 0 THEN 0
                                  ELSE IF @ \in ids THEN Rank(@) ELSE n + 1,
                   !.nextTimer = n + 2 ]

MktPlay ==
    /\ trace.calls < MaxCalls
    /\ sim' = Renumber(MarketPlay(sim))
    /\ trace' = Traced("play", sim, << >>, 1)
    /\ UNCHANGED <<real, fetches, ledgerVars, appVars>>

MktPause ==
    /\ trace.calls < MaxCalls
    /\ sim' = Renumber(MarketPause(sim))
    /\ trace' = Traced("pause", sim, << >>, 1)
    /\ UNCHANGED <<real, fetches, ledgerVars, appVars>>

MktSetSpeed ==
    \E s \in Speeds :
        /\ trace.calls < MaxCalls
        /\ sim' = Renumber(MarketSetSpeed(sim, s))
        /\ trace' = Traced("setSpeed", sim, << >>, 1)
        /\ UNCHANGED <<real, fetches, ledgerVars, appVars>>

MktReset ==
    /\ trace.calls < MaxCalls
    /\ sim' = Renumber(MarketReset(sim))
    /\ trace' = Traced("reset", sim, << >>, 1)
    /\ UNCHANGED <<real, fetches, ledgerVars, appVars>>

MktSetScenario ==
    \E name \in ScenarioNames :
        /\ trace.calls < MaxCalls
        /\ sim' = Renumber(MarketSetScenario(sim, name))
        /\ trace' = Traced("setScenario", sim, << >>, 1)
        /\ UNCHANGED <<real, fetches, ledgerVars, appVars>>

\* the scripts the listeners can run during a tick of engine e: one for
\* 'dayClose' (delivered on the first tick of a later day) and one for 'tick'
ScriptsOf(e) ==
    { <<a, b>> : a \in (IF e.tick % TicksPerDay = 0 /\ e.tick > 0
                        THEN Scripts ELSE { << >> }),
                 b \in Scripts }

\* a pending timeout of the simulator fires
MktTimeout ==
    \E t \in sim.timers, d \in DrawsOf(sim), scripts \in ScriptsOf(sim) :
        /\ sim.tick < MaxMarketTicks
        /\ trace.calls + Reentries(scripts) <= MaxCalls
        /\ sim' = Renumber(TimeoutWith(sim, t, d, scripts[1], scripts[2]))
        /\ trace' = Traced("tick", TickDigest(sim, d, scripts[1]), scripts,
                           Reentries(scripts))
        /\ UNCHANGED <<real, fetches, ledgerVars, appVars>>

MarketNext ==
    \/ MktPlay \/ MktPause \/ MktSetSpeed \/ MktReset \/ MktSetScenario
    \/ MktTimeout

----------------------------------------------------------------------------
(* The Decision Engine (ai-engine.js, and App._evaluateRealAI for replay)   *)
(*                                                                          *)
(* Scores are carried in hundredths (0.1 is 10) and confidences in          *)
(* hundredths of a percent.  What the indicators signal on a tick and the   *)
(* score the signal gets (the lookahead draws Math.random) are inputs of    *)
(* the evaluation: a set of fired slots and a score for each.               *)

\* evaluation cycles that reach move generation (enough candles)
MaxEvals == 2

\* signals that fire in one evaluation cycle
MaxCands == 2

\* tickers loaded in real mode
MaxLoads == 1

\* trades made in a run of move generation and scoring
MaxMoveOps == 3

\* ticks of a cadence run, enough for 51 evaluations
MaxCadenceTicks == 410

\* presses of the reset button in a cadence run
MaxCadenceResets == 1

\* best.score > 0.1
SimThreshold == 10

\* candidates[0].score > 0.5
RealThreshold == 50

\* evaluate every N ticks
TradeFrequency == 8

\* evaluate every 2 candles
RealFrequency == 2

\* candles.length < 5: no moves
MinCandles == 5

\* thinkingLog keeps the 50 most recent analyses
ThinkingLogCap == 50

\* the order getSymbols() lists the instruments in
SymbolOrder == <<"NOVA", "STBL">>

\* the moves _generateMoves can push for a symbol, in the order its
\* strategies run, each with the percentage of maxShares (BUY) or of the
\* holding (SELL) it trades
SimSlots ==
    << [strategy |-> "momentum", action |-> "BUY", pct |-> 50],
       [strategy |-> "momentum", action |-> "SELL", pct |-> 50],
       [strategy |-> "meanReversion", action |-> "BUY", pct |-> 60],
       [strategy |-> "meanReversion", action |-> "SELL", pct |-> 60],
       [strategy |-> "meanReversion", action |-> "BUY", pct |-> 40],
       [strategy |-> "breakout", action |-> "BUY", pct |-> 50],
       [strategy |-> "breakout", action |-> "SELL", pct |-> 100],
       [strategy |-> "value", action |-> "BUY", pct |-> 50],
       [strategy |-> "value", action |-> "SELL", pct |-> 50],
       [strategy |-> "scalping", action |-> "BUY", pct |-> 30],
       [strategy |-> "scalping", action |-> "SELL", pct |-> 30] >>

\* the slots that fire while the App runs: the momentum BUY, the value SELL
AppSlots == {1, 9}

\* scores _scoreMove returns (Math.max(0, score))
SimScores == {5, 10, 11, 12}

\* the candidates _evaluateRealAI can push, in the order it tests them, each
\* with scores its formula can yield: priceChange * 3 + 0.5 for
\* priceChange > 0.02, |priceChange| * 3 + 0.3 for priceChange < -0.02,
\* and (sma50 - price) / sma50 * 5 + 0.5 for price < sma50 * 0.94
RealSlots ==
    << [strategy |-> "Momentum", action |-> "BUY", scores |-> {57, 60}],
       [strategy |-> "Momentum", action |-> "SELL", scores |-> {40, 50, 51}],
       [strategy |-> "Value", action |-> "BUY", scores |-> {81}] >>

\* Math.ceil(n * 0.5) for an integer n >= 0
CeilHalf(n) == (n + 1) \div 2

\* Math.ceil(n * pct / 100) for an integer n >= 0
CeilPct(n, pct) == (n * pct + 99) \div 100

\* cash * pct / 100 / price rounded up
MaxSharesRoundedUp(cash, pct, price) ==
    (cash * pct + 100 * price - 1) \div (100 * price)

\* Math.floor(cash * pct / 100 / price)
MaxShares(cash, pct, price) == (cash * pct) \div (100 * price)

HoldMove ==
    [ action |-> "HOLD", symbol |-> "-", qty |-> 0, price |-> 0,
      strategy |-> "-", score |-> 0 ]

\* _makeMove(action, symbol, qty, price, strategy, ...) with its score set
MakeMove(action, symbol, qty, price, strategy, score) ==
    [ action |-> action, symbol |-> symbol, qty |-> qty, price |-> price,
      strategy |-> strategy, score |-> score ]

\* getHolding(symbol) is truthy and its qty > 0
HoldsShares(p, symbol) == Held(p, symbol) /\ p.holdings[symbol].qty > 0

AtLeastThreshold(score, threshold) == score >= threshold

\* score > threshold
ExceedsThreshold(score, threshold) == score > threshold

\* candidates.sort((a, b) => b.score - a.score): c inserted into the sorted
\* list s behind every element that scores at least as much (the sort is
\* stable)
RECURSIVE InsertByScore(_, _)
InsertByScore(s, c) ==
    IF s = << >> THEN <<c>>
    ELSE IF Head(s).score >= c.score THEN <<Head(s)>> \o InsertByScore(Tail(s), c)
    ELSE <<c>> \o s

RECURSIVE SortByScore(_)
SortByScore(s) ==
    IF s = << >> THEN << >>
    ELSE InsertByScore(SortByScore(SubSeq(s, 1, Len(s) - 1)), s[Len(s)])

\* new AIEngine(market, portfolio); thinkingLog holds the tick of each
\* analysis, most recent first
AIEngine ==
    [ strategy |-> "auto", thinkingLog |-> << >>, currentAnalysis |-> << >>,
      lastEvalTick |-> 0, confidence |-> 0 ]

\* the moves _generateMoves(symbol, prices) returns for the ledger p, slot k
\* of the symbol having fired with score sc[<<symbol, k>>]
RECURSIVE SlotMoves(_, _, _, _, _, _)
SlotMoves(p, symbol, price, k, fired, sc) ==
    IF k > Len(SimSlots) THEN << >>
    ELSE
    LET slot == SimSlots[k]
        maxShares == MaxShares(p.cash, 25, price)
        here == IF <<symbol, k>> \notin fired THEN << >>
                ELSE IF slot.action = "BUY" /\ maxShares > 0
                THEN << MakeMove("BUY", symbol,
                                 Min(maxShares, CeilPct(maxShares, slot.pct)),
                                 price, slot.strategy, sc[<<symbol, k>>]) >>
                ELSE IF slot.action = "SELL" /\ HoldsShares(p, symbol)
                THEN << MakeMove("SELL", symbol,
                                 Min(p.holdings[symbol].qty,
                                     CeilPct(p.holdings[symbol].qty, slot.pct)),
                                 price, slot.strategy, sc[<<symbol, k>>]) >>
                ELSE << >>
    IN  here \o SlotMoves(p, symbol, price, k + 1, fired, sc)

SimMoves(p, symbol, price, fired, sc) == SlotMoves(p, symbol, price, 1, fired, sc)

\* the candidate list of evaluate() before it is sorted: the moves of every
\* symbol, none while a symbol has fewer than 5 candles
\* candles.length < 5 with the limit one candle lower
TooFewCandlesBelowFour(candles) == candles < MinCandles - 1

\* candles.length < 5
TooFewCandles(candles) == candles < MinCandles

RECURSIVE SimCandidates(_, _, _, _, _, _)
SimCandidates(p, syms, candles, prices, fired, sc) ==
    IF syms = << >> \/ TooFewCandles(candles) THEN << >>
    ELSE SimMoves(p, Head(syms), prices[Head(syms)], fired, sc)
         \o SimCandidates(p, Tail(syms), candles, prices, fired, sc)

\* _executeTrade(move, prices) trading half of the move
ExecuteTradeHalf(p, move, day, tick) ==
    IF move.action = "BUY"
    THEN buy(p, move.symbol, move.qty \div 2, move.price, day, tick)
    ELSE IF move.action = "SELL"
    THEN sell(p, move.symbol, move.qty \div 2, move.price, day, tick)
    ELSE [pf |-> p, ret |-> << >>]

\* _executeTrade(move, prices)
ExecuteTrade(p, move, day, tick) ==
    IF move.action = "BUY" THEN buy(p, move.symbol, move.qty, move.price, day, tick)
    ELSE IF move.action = "SELL"
    THEN sell(p, move.symbol, move.qty, move.price, day, tick)
    ELSE [pf |-> p, ret |-> << >>]

\* a thinking log that is never trimmed
UnshiftNoCap(log, x) == <<x>> \o log

\* thinkingLog.unshift(analysis); if (length > 50) pop()
Unshift(log, x) ==
    LET l == <<x>> \o log
    IN  IF Len(l) > ThinkingLogCap THEN SubSeq(l, 1, Len(l) - 1) ELSE l

\* evaluate(tick) one tick sooner than the frequency allows
DueOneTickEarly(lastEvalTick, tick) == tick - lastEvalTick >= TradeFrequency - 1

\* the negation of `tick - this.lastEvalTick < this.tradeFrequency`
Due(lastEvalTick, tick) == tick - lastEvalTick >= TradeFrequency

\* evaluate(tick) with the market on day `day` showing `candles` candles per
\* symbol and the quotes `prices`: the engine, its ledger, and the analysis
\* returned (<< >> for null)
evaluate(a, p, tick, day, candles, prices, fired, sc) ==
    IF ~Due(a.lastEvalTick, tick)
    THEN [ai |-> a, pf |-> p, analysis |-> << >>, ret |-> << >>, signals |-> << >>]
    ELSE
    LET candidates == SortByScore(SimCandidates(p, SymbolOrder, candles, prices,
                                                fired, sc))
        hasBest == candidates # << >>
        take == hasBest /\ ExceedsThreshold(candidates[1].score, SimThreshold)
        chosen == IF take THEN candidates[1] ELSE HoldMove
        confidence == IF take THEN Min(9900, Max(1000, candidates[1].score * 20))
                      ELSE Max(500, (IF hasBest THEN candidates[1].score ELSE 0) * 10)
        r == IF take THEN ExecuteTrade(p, chosen, day, tick)
             ELSE [pf |-> p, ret |-> << >>]
        analysis == [ tick |-> tick, candidates |-> candidates, chosen |-> chosen,
                      confidence |-> confidence ]
    IN  [ ai |-> [ a EXCEPT !.lastEvalTick = tick, !.confidence = confidence,
                            !.currentAnalysis = <<analysis>>,
                            !.thinkingLog = Unshift(@, tick) ],
          pf |-> r.pf, analysis |-> <<analysis>>, ret |-> r.ret,
          \* _executeTrade emits 'trade' if (result); evaluate ends with 'analysis'
          signals |-> (IF r.ret # << >> THEN << "trade" >> ELSE << >>)
                      \o << "analysis" >> ]

\* the candidate list of _evaluateRealAI before it is sorted
RECURSIVE RealCandidates(_, _, _, _, _, _)
RealCandidates(p, symbol, price, k, fired, sc) ==
    IF k > Len(RealSlots) THEN << >>
    ELSE
    LET slot == RealSlots[k]
        maxShares == MaxShares(p.cash, 30, price)
        here == IF k \notin fired THEN << >>
                ELSE IF slot.action = "BUY" /\ maxShares > 0
                THEN << MakeMove("BUY", symbol, CeilHalf(maxShares), price,
                                 slot.strategy, sc[k]) >>
                ELSE IF slot.action = "SELL" /\ HoldsShares(p, symbol)
                THEN << MakeMove("SELL", symbol, CeilHalf(p.holdings[symbol].qty),
                                 price, slot.strategy, sc[k]) >>
                ELSE << >>
    IN  here \o RealCandidates(p, symbol, price, k + 1, fired, sc)

\* _evaluateRealAI(data) for the replay driver e delivering its tick: the
\* ledger, _realAiLastEval and what the thinking panel is given
evaluateRealAI(p, lastEval, e, fired, sc) ==
    IF TooFewCandles(Len(e.replayCandles)) \/ e.day - lastEval < RealFrequency
    THEN [pf |-> p, lastEval |-> lastEval, analysis |-> << >>, ret |-> << >>]
    ELSE
    LET price == e.replayCandles[Len(e.replayCandles)].close
        candidates == SortByScore(RealCandidates(p, e.symbol, price, 1, fired, sc))
        take == candidates # << >>
                /\ ExceedsThreshold(candidates[1].score, RealThreshold)
        chosen == IF take THEN candidates[1] ELSE HoldMove
        confidence == IF take THEN Min(9500, Max(2000, candidates[1].score * 25))
                      ELSE 5000
        r == IF take THEN ExecuteTrade(p, chosen, e.day, e.tick)
             ELSE [pf |-> p, ret |-> << >>]
    IN  [ pf |-> r.pf, lastEval |-> e.day,
          analysis |-> << [ tick |-> e.tick, candidates |-> candidates,
                            chosen |-> chosen, confidence |-> confidence ] >>,
          ret |-> r.ret ]

----------------------------------------------------------------------------
(* The App (app.js): the engines wired to the ledgers and Decision Engines *)

Modes == {"sim", "real"}

\* new App(), in the mode the saved settings select at start-up
App(mode) ==
    [ mode |-> mode,
      aiPortfolio |-> Portfolio(StartingCash),
      userPortfolio |-> Portfolio(StartingCash),
      ai |-> AIEngine,
      realAiPortfolio |-> Portfolio(StartingCash),
      realUserPortfolio |-> Portfolio(StartingCash),
      realAiLastEval |-> -1 ]

\* the quotes the simulator shows after a tick
MarketQuotes == { pm \in PriceMaps : DOMAIN pm = Symbols }

\* the slots that can fire together in one evaluate() call
SimFirings ==
    { f \in SUBSET ({ SymbolOrder[i] : i \in 1..Len(SymbolOrder) }
                    \X AppSlots) : Cardinality(f) <= MaxCands }

\* the slots that can fire together in one _evaluateRealAI call: the momentum
\* BUY needs priceChange > 0.02 and the momentum SELL priceChange < -0.02
RealFirings ==
    { f \in SUBSET (1..Len(RealSlots)) :
        Cardinality(f) <= MaxCands /\ ~({1, 2} \subseteq f) }

\* the signals the next tick of the simulator e can give evaluate(): they are
\* read only by a cycle that is due
SimSignals(a, e) ==
    IF /\ a.mode = "sim"
       /\ e.tick + 1 - a.ai.lastEvalTick >= TradeFrequency
    THEN SimFirings ELSE { {} }

\* the signals the next bar of the replay driver e can give _evaluateRealAI
RealSignals(a, e) ==
    IF /\ a.mode = "real"
       /\ Len(e.replayCandles) + 1 >= MinCandles
       /\ e.replayIndex - a.realAiLastEval >= RealFrequency
    THEN RealFirings ELSE { {} }

RealScorings(f) == { sc \in [f -> 0..100] : \A k \in f : sc[k] \in RealSlots[k].scores }

\* the record kept of an evaluation cycle: the engine, the sorted candidates,
\* the chosen move, the confidence, the engine's ledger before and after, the
\* trade made, the candles the market showed, the market engine before and
\* after the cycle, the signals the engine emitted; the records of the last two cycles are kept, the latest first
Evaluation(engine, analysis, before, after, ret, candles, market, signals) ==
    [ engine |-> engine, candles |-> candles, market |-> market, signals |-> signals,
      candidates |-> analysis.candidates,
      chosen |-> analysis.chosen, confidence |-> analysis.confidence,
      before |-> before, after |-> after, ret |-> ret ]

\* evals after a handler that ran the evaluation r (r.analysis is << >> when
\* the cycle was skipped) on the ledger `before`, with `candles` candles
Evaluated(ev, engine, r, before, candles, market) ==
    IF r.analysis = << >> THEN ev
    ELSE [ ev EXCEPT
             !.n = IF candles >= MinCandles THEN @ + 1 ELSE @,
             !.last = << Evaluation(engine, r.analysis[1], before, r.pf, r.ret,
                                    candles,
                                    [before |-> market, after |-> r.market],
                                    r.signals) >>
                      \o SubSeq(@, 1, Min(1, Len(@))) ]

\* _onDayClose()
OnDayClose(a, prices) ==
    IF a.mode # "sim" THEN a
    ELSE [ a EXCEPT !.aiPortfolio = updateMetrics(@, prices),
                    !.userPortfolio = updateMetrics(@, prices) ]

\* the last count elements of a list: list.slice(-count)
LastN(list, count) ==
    IF Len(list) <= count THEN list ELSE SubSeq(list, Len(list) - count + 1, Len(list))

\* the open bar of an instrument
OpenBar(e, symbol) ==
    [ time |-> e.day, open |-> e.stocks[symbol].open, high |-> e.stocks[symbol].high,
      low |-> e.stocks[symbol].low, close |-> e.stocks[symbol].price ]

\* getCandles(symbol, count) pushing the open bar on the history itself
GetCandlesShared(e, symbol, count) ==
    LET h == IF e.stocks[symbol].dayPrices > 0
             THEN Append(e.stocks[symbol].history, OpenBar(e, symbol))
             ELSE e.stocks[symbol].history
    IN  [ e |-> [e EXCEPT !.stocks[symbol].history = h],
          candles |-> LastN(h, count) ]

\* MarketEngine.getCandles(symbol, count): the candles returned and the
\* engine after the call; the open bar is pushed on a copy of the history
GetCandles(e, symbol, count) ==
    LET histCopy == LastN(e.stocks[symbol].history, count)
    IN  [ e |-> e,
          candles |-> IF e.stocks[symbol].dayPrices > 0
                      THEN Append(histCopy, OpenBar(e, symbol)) ELSE histCopy ]

\* the simulator after the getCandles(sym, 50) calls of one evaluate()
RECURSIVE ReadMarket(_, _)
ReadMarket(e, syms) ==
    IF syms = << >> THEN e
    ELSE ReadMarket(GetCandles(e, Head(syms), 50).e, Tail(syms))

\* RealMarketEngine.getCandles(symbol): replayCandles.slice(-500), and the
\* driver after the call
RealGetCandles(e) == [e |-> e, candles |-> LastN(e.replayCandles, 500)]

\* what evaluate() returned, with the simulator e after the reads of the cycle
AfterReads(r, e) ==
    [ ai |-> r.ai, pf |-> r.pf, analysis |-> r.analysis, ret |-> r.ret,
      signals |-> r.signals,
      market |-> IF r.analysis = << >> THEN e ELSE ReadMarket(e, SymbolOrder) ]

\* what _evaluateRealAI left, with the driver e after the read of the cycle
AfterRealReads(r, e) ==
    [ pf |-> r.pf, lastEval |-> r.lastEval, analysis |-> r.analysis,
      ret |-> r.ret, signals |-> << >>, market |-> RealGetCandles(e).e ]

\* _onTick(data): the evaluation made for the simulator e that just ticked,
\* and the simulator after it
OnTick(a, e, prices, fired, sc) ==
    IF a.mode # "sim"
    THEN [ ai |-> a.ai, pf |-> a.aiPortfolio, analysis |-> << >>, ret |-> << >>,
           signals |-> << >>, market |-> e ]
    ELSE AfterReads(evaluate(a.ai, a.aiPortfolio, e.tick, e.day,
                             Len(GetCandles(e, SymbolOrder[1], 50).candles),
                             prices, fired, sc), e)

\* _onRealTick(data): the evaluation made for the replay driver e that just
\* revealed a bar; the ledgers' metrics are updated after it
OnRealTick(a, e, fired, sc) ==
    IF a.mode # "real"
    THEN [ pf |-> a.realAiPortfolio, lastEval |-> a.realAiLastEval,
           analysis |-> << >>, ret |-> << >>, signals |-> << >>, market |-> e ]
    ELSE AfterRealReads(evaluateRealAI(a.realAiPortfolio, a.realAiLastEval, e,
                                       fired, sc), e)

AfterRealTick(a, e, r) ==
    IF a.mode # "real" THEN a
    ELSE LET prices == [s \in {e.symbol} |-> e.replayCandles[Len(e.replayCandles)].close]
         IN  [ a EXCEPT !.realAiPortfolio = updateMetrics(r.pf, prices),
                        !.realUserPortfolio = updateMetrics(@, prices),
                        !.realAiLastEval = r.lastEval ]

\* _advanceReplay() with the App listening: the driver, the App and the
\* evaluation record after it
AppAdvanceReplay(e, a, ev, fired, sc) ==
    IF e.replayIndex >= Len(e.candles) THEN [e |-> e, app |-> a, evals |-> ev]
    ELSE LET e1 == RealReveal(e)
             r == OnRealTick(a, e1, fired, sc)
         IN  [ e |-> [r.market EXCEPT !.replayIndex = @ + 1],
               app |-> AfterRealTick(a, e1, r),
               evals |-> Evaluated(ev, "real", r, a.realAiPortfolio,
                                   Len(e1.replayCandles), e1) ]

\* _loadRealSymbol(symbol, range) up to its await
LoadRealSymbol(a) ==
    [ a EXCEPT !.realAiPortfolio = reset(@, 0), !.realUserPortfolio = reset(@, 0),
               !.realAiLastEval = -1 ]

AppInit ==
    /\ app = App("sim")
    /\ evals = [n |-> 0, loads |-> 0, last |-> << >>]

\* the play button
AppPlay ==
    /\ IF app.mode = "sim"
       THEN sim' = MarketPlay(sim) /\ UNCHANGED real
       ELSE real' = RealPlay(real) /\ UNCHANGED sim
    /\ UNCHANGED <<fetches, ledgerVars, appVars, traceVars>>

\* the draws of a tick while the App is followed: no gap, no event, every
\* price at the higher of its draws
AppDraw(e) ==
    CHOOSE d \in DrawsOf(e) :
        /\ d.event = << >>
        /\ \A s \in Symbols :
              /\ \A x \in RawPrices(s) : x <= d.price[s]
              /\ d.open # NoGap => d.open[s] = d.price[s]

\* a pending timeout of the simulator fires: _tick() closes the day on a day
\* boundary ('dayClose'), moves the prices, emits 'tick' to the App, and the
\* callback reschedules
AppSimTimeout ==
    \E t \in sim.timers, closing \in MarketQuotes, prices \in MarketQuotes,
       fired \in SimSignals(app, sim) :
      \E sc \in [fired -> SimScores] :
        LET e0 == [sim EXCEPT !.timers = @ \ {t}]
            isNewDay == e0.tick % TicksPerDay = 0 /\ e0.tick > 0
            e1 == TickWith(e0, AppDraw(e0), << >>, << >>)
            a1 == IF isNewDay THEN OnDayClose(app, closing) ELSE app
            r == OnTick(a1, e1, prices, fired, sc)
        IN  /\ evals.n < MaxEvals
            /\ sim' = MarketSchedule(r.market)
            /\ app' = [a1 EXCEPT !.ai = r.ai, !.aiPortfolio = r.pf]
            /\ evals' = Evaluated(evals, "sim", r, a1.aiPortfolio,
                                  Len(GetCandles(e1, SymbolOrder[1], 50).candles), e1)
            /\ UNCHANGED <<real, fetches, ledgerVars, traceVars>>

\* a pending timeout of the replay driver fires
AppRealTimeout ==
    \E t \in real.timers, fired \in RealSignals(app, real) :
      \E sc \in RealScorings(fired) :
        LET e0 == [real EXCEPT !.timers = @ \ {t}]
            adv == AppAdvanceReplay(e0, app, evals, fired, sc)
        IN  /\ evals.n < MaxEvals
            /\ IF e0.replayIndex < Len(e0.candles)
               THEN /\ real' = RealSchedule(adv.e)
                    /\ app' = adv.app
                    /\ evals' = adv.evals
               ELSE /\ real' = [e0 EXCEPT !.paused = TRUE]
                    /\ UNCHANGED appVars
            /\ UNCHANGED <<sim, fetches, ledgerVars, traceVars>>

\* a ticker is picked in real mode: _loadRealSymbol up to its await
AppLoadSymbol ==
    \E symbol \in Typed :
        /\ app.mode = "real"
        /\ Len(fetches) < MaxInFlight
        /\ evals.loads < MaxLoads
        /\ app' = LoadRealSymbol(app)
        /\ real' = RealLoadStart(real, symbol, "1y")
        /\ fetches' = Append(fetches, [symbol |-> real'.symbol, range |-> "1y"])
        /\ evals' = [evals EXCEPT !.loads = @ + 1]
        /\ UNCHANGED <<sim, ledgerVars, traceVars>>

\* the history request resolves or fails; a series that arrives is shown up
\* to its first bar, whose 'tick' the App handles
AppLoadEnd ==
    \E i \in 1..Len(fetches), outcome \in Outcomes :
        LET req == fetches[i]
            e1 == [ real EXCEPT !.symbolInfo = req.symbol,
                                !.candles = Series(req.symbol),
                                !.replayIndex = 0, !.replayCandles = << >>,
                                !.day = 0, !.tick = 0, !.loading = FALSE ]
            adv == AppAdvanceReplay(e1, app, evals, {}, << >>)
        IN  /\ IF outcome = "ok"
               THEN /\ real' = adv.e
                    /\ app' = adv.app
                    /\ evals' = adv.evals
               ELSE /\ real' = RealLoadEnd(real, req, outcome)
                    /\ UNCHANGED appVars
            /\ fetches' = SubSeq(fetches, 1, i - 1) \o SubSeq(fetches, i + 1, Len(fetches))
            /\ UNCHANGED <<sim, ledgerVars, traceVars>>

AppNext ==
    \/ AppPlay \/ AppSimTimeout \/ AppRealTimeout \/ AppLoadSymbol \/ AppLoadEnd

\* the trades the user makes while the App is followed
MaxUserTrades == 1

\* _userTrade(side) booking the trade on the Decision Engine's ledger
UserTradeOnAiLedger(a, e, re, side, symbol, input, price) ==
    LET isReal == a.mode = "real"
        sym == IF isReal THEN re.symbol ELSE symbol
        qty == UserQty(input)
        ledger == IF isReal THEN a.realAiPortfolio ELSE a.aiPortfolio
        quoted == IF isReal THEN Len(re.replayCandles) > 0 ELSE sym \in Symbols
        px == IF isReal THEN re.replayCandles[Len(re.replayCandles)].close ELSE price
        day == IF isReal THEN re.day ELSE e.day
        tick == IF isReal THEN re.tick ELSE e.tick
        result == IF side = "BUY" THEN buy(ledger, sym, qty, px, day, tick)
                  ELSE sell(ledger, sym, qty, px, day, tick)
    IN  IF ~quoted THEN a
        ELSE IF isReal THEN [a EXCEPT !.realAiPortfolio = result.pf]
        ELSE [a EXCEPT !.aiPortfolio = result.pf]

\* _userTrade(side): the App after the user's ledger of the mode bought or
\* sold the quantity of the form at the ask or bid of the quote; the replay
\* driver's ask and bid, within a thousandth of the last close, are carried
\* as the close
UserTrade(a, e, re, side, symbol, input, price) ==
    LET isReal == a.mode = "real"
        sym == IF isReal THEN re.symbol ELSE symbol
        qty == UserQty(input)
        ledger == IF isReal THEN a.realUserPortfolio ELSE a.userPortfolio
        quoted == IF isReal THEN Len(re.replayCandles) > 0 ELSE sym \in Symbols
        px == IF isReal THEN re.replayCandles[Len(re.replayCandles)].close ELSE price
        day == IF isReal THEN re.day ELSE e.day
        tick == IF isReal THEN re.tick ELSE e.tick
        result == IF side = "BUY" THEN buy(ledger, sym, qty, px, day, tick)
                  ELSE sell(ledger, sym, qty, px, day, tick)
    IN  IF ~quoted THEN a
        ELSE IF isReal THEN [a EXCEPT !.realUserPortfolio = result.pf]
        ELSE [a EXCEPT !.userPortfolio = result.pf]

\* the symbol the App selects at construction
SelectedSymbol == "NOVA"

\* the quantity field left empty
UserInputs == { i \in FormInputs : i.nan }

\* the last tick of an engine at which the user's trades are followed
MaxUserTradeTick == 1

\* the Buy or Sell button of the user's trade form
AppUserTrade ==
    \E side \in {"BUY", "SELL"}, symbol \in {SelectedSymbol}, input \in UserInputs :
      \E price \in Quotes(symbol) :
        /\ Len(app.userPortfolio.trades) + Len(app.realUserPortfolio.trades)
              < MaxUserTrades
        /\ (IF app.mode = "real" THEN real.tick ELSE sim.tick) <= MaxUserTradeTick
        /\ app' = UserTrade(app, sim, real, side, symbol, input, price)
        /\ UNCHANGED <<evals, playbackVars, ledgerVars, traceVars>>

\* the evaluation cycles followed while the user trades
MaxLedgerEvals == 1

LedgersNext ==
    \/ evals.n < MaxLedgerEvals /\ AppNext
    \/ AppUserTrade

----------------------------------------------------------------------------
(* The Replay Driver with the App listening, driven by its callers, its    *)
(* timers, the data source and a second listener                            *)

\* the 'tick' signal _advanceReplay() emits on driver e: the tick number, the
\* progress as numerator and denominator, and the bars revealed at that time
TickSignal(e) ==
    [ evt |-> "tick", tick |-> e.tick + 1, num |-> e.replayIndex + 1,
      den |-> Len(e.candles), revealed |-> Len(e.replayCandles) + 1 ]

Signal(evt) == [evt |-> evt]

\* reset() up to its _advanceReplay() call
RealRewind(e) ==
    [ RealPause(e) EXCEPT !.replayIndex = 0, !.replayCandles = << >>,
                          !.day = 0, !.tick = 0 ]

\* what _advanceReplay() emits on driver e
AdvanceSignals(e) ==
    IF e.replayIndex >= Len(e.candles) THEN << >> ELSE << TickSignal(e) >>

\* the driver, the App and the evaluation record together
Driven(e, a, ev) == [e |-> e, app |-> a, evals |-> ev]

\* _onRealReset()
OnRealReset(a) ==
    IF a.mode # "real" THEN a
    ELSE [ a EXCEPT !.realAiPortfolio = reset(@, 0), !.realUserPortfolio = reset(@, 0),
                    !.realAiLastEval = -1 ]

\* reset() with the App listening: the first bar is shown again, then 'reset'
\* is emitted
AppReset(x) ==
    LET adv == AppAdvanceReplay(RealRewind(x.e), x.app, x.evals, {}, << >>)
    IN  [adv EXCEPT !.app = OnRealReset(@)]

\* one call the second listener makes on the replay driver
AppApply(x, c) ==
    IF c.m = "reset" THEN AppReset(x) ELSE [x EXCEPT !.e = RealApply(@, c)]

\* the signals that call emits
ApplySignals(e, c) ==
    IF c.m = "reset" THEN AdvanceSignals(RealRewind(e)) ELSE << >>

\* emit(evt, data) after the App's handler ran: the second listener makes the
\* calls of script (at most one)
AppEmit(x, script) == IF script = << >> THEN x ELSE AppApply(x, script[1])

ScriptSignals(e, script) ==
    IF script = << >> THEN << >> ELSE ApplySignals(e, script[1])

\* the callback _schedule() hands to setTimeout, run when timer t fires, with
\* the App and the second listener listening
AppTimeout(x, t, script, fired, sc) ==
    LET e0 == [x.e EXCEPT !.timers = @ \ {t}]
    IN  IF e0.replayIndex < Len(e0.candles)
        THEN LET e1 == RealReveal(e0)
                 r == OnRealTick(x.app, e1, fired, sc)
                 x1 == Driven(r.market, AfterRealTick(x.app, e1, r),
                              Evaluated(x.evals, "real", r, x.app.realAiPortfolio,
                                        Len(e1.replayCandles), e1))
                 x2 == AppEmit(x1, script)
             IN  [x2 EXCEPT !.e = RealSchedule([@ EXCEPT !.replayIndex = @ + 1])]
        ELSE AppEmit([x EXCEPT !.e = [e0 EXCEPT !.paused = TRUE]], script)

\* the signals that callback emits
TimeoutSignals(e, script) ==
    IF e.replayIndex < Len(e.candles)
    THEN << TickSignal(e) >> \o ScriptSignals(RealReveal(e), script)
    ELSE << Signal("complete") >> \o ScriptSignals([e EXCEPT !.paused = TRUE], script)

Emitted(signals, evt) == \E i \in 1..Len(signals) : signals[i].evt = evt

Resets(script) == \E i \in 1..Len(script) : script[i].m = "reset"

\* the record of an operation on the replay driver: its name, the driver
\* before it, the signals it emitted, whether 'complete' had been emitted
\* (and not been followed by a reset or a successful load) before it, the
\* calls the second listener made, how the history request ended
ReplayCall(name, signals, script, outcome) ==
    [ name |-> name, before |-> real, signals |-> signals,
      wasDone |-> trace.done, script |-> script, outcome |-> outcome ]

RplPlay ==
    /\ real' = Renumber(RealPlay(real))
    /\ trace' = [ trace EXCEPT !.op = ReplayCall("play", << >>, << >>, ""),
                               !.snap = << >> ]
    /\ UNCHANGED <<sim, fetches, ledgerVars, appVars>>

RplPause ==
    /\ trace.calls < MaxReplayCalls
    /\ real' = Renumber(RealPause(real))
    /\ trace' = [ trace EXCEPT !.op = ReplayCall("pause", << >>, << >>, ""),
                               !.calls = @ + 1, !.snap = << >> ]
    /\ UNCHANGED <<sim, fetches, ledgerVars, appVars>>

RplSetSpeed ==
    \E s \in Speeds :
        /\ trace.calls < MaxReplayCalls
        /\ real' = Renumber(RealSetSpeed(real, s))
        /\ trace' = [ trace EXCEPT !.op = ReplayCall("setSpeed", << >>, << >>, ""),
                                   !.calls = @ + 1, !.snap = << >> ]
        /\ UNCHANGED <<sim, fetches, ledgerVars, appVars>>

RplReset ==
    LET x == AppReset(Driven(real, app, evals))
    IN  /\ trace.calls < MaxReplayCalls
        /\ real' = Renumber(x.e)
        /\ app' = x.app
        /\ evals' = x.evals
        /\ trace' = [ trace EXCEPT
                        !.op = ReplayCall("reset", ApplySignals(real, [m |-> "reset", s |-> 0]),
                                          << >>, ""),
                        !.calls = @ + 1, !.done = FALSE, !.snap = << >> ]
        /\ UNCHANGED <<sim, fetches, ledgerVars>>

\* a pending timeout of the replay driver fires
RplTimeout ==
    \E t \in real.timers, script \in Scripts, fired \in RealSignals(app, real) :
      \E sc \in RealScorings(fired) :
        LET x == AppTimeout(Driven(real, app, evals), t, script, fired, sc)
            signals == TimeoutSignals(real, script)
        IN  /\ evals.n < MaxEvals
            /\ real.tick < MaxReplayTicks
            /\ trace.calls + Len(script) <= MaxReplayCalls
            /\ real' = Renumber(x.e)
            /\ app' = x.app
            /\ evals' = x.evals
            /\ trace' = [ trace EXCEPT
                            !.op = ReplayCall("timeout", signals, script, ""),
                            !.calls = @ + Len(script),
                            !.done = IF Resets(script) THEN FALSE
                                     ELSE @ \/ Emitted(signals, "complete"),
                            !.snap = << >> ]
            /\ UNCHANGED <<sim, fetches, ledgerVars>>

\* a ticker is picked: _loadRealSymbol up to its await
RplLoad ==
    \E symbol \in Typed :
        /\ Len(trace.issued) < MaxRequests
        /\ app' = LoadRealSymbol(app)
        /\ real' = Renumber(RealLoadStart(real, symbol, "1y"))
        /\ fetches' = Append(fetches, [symbol |-> real'.symbol, range |-> "1y"])
        /\ trace' = [ trace EXCEPT
                        !.op = ReplayCall("load", << >>, << >>, ""),
                        !.issued = Append(@, [symbol |-> real'.symbol,
                                              overlap |-> fetches # << >>]),
                        !.snap = IF fetches = << >>
                                 THEN << [ e |-> real, ai |-> app.realAiPortfolio,
                                           user |-> app.realUserPortfolio ] >>
                                 ELSE << >> ]
        /\ UNCHANGED <<sim, ledgerVars, evals>>

\* a history request in flight resolves or fails
RplLoadEnd ==
    \E i \in 1..Len(fetches), outcome \in Outcomes :
        LET req == fetches[i]
            e1 == [ real EXCEPT !.symbolInfo = req.symbol,
                                !.candles = Series(req.symbol),
                                !.replayIndex = 0, !.replayCandles = << >>,
                                !.day = 0, !.tick = 0, !.loading = FALSE ]
            adv == AppAdvanceReplay(e1, app, evals, {}, << >>)
            signals == IF outcome = "ok"
                       THEN << Signal("loaded") >> \o AdvanceSignals(e1)
                       ELSE << Signal("error") >>
        IN  /\ IF outcome = "ok"
               THEN /\ real' = Renumber(adv.e)
                    /\ app' = adv.app
                    /\ evals' = adv.evals
               ELSE /\ real' = Renumber(RealLoadEnd(real, req, outcome))
                    /\ UNCHANGED appVars
            /\ fetches' = SubSeq(fetches, 1, i - 1) \o SubSeq(fetches, i + 1, Len(fetches))
            /\ trace' = [ trace EXCEPT
                            !.op = ReplayCall("loadEnd", signals, << >>, outcome),
                            !.loaded = @ \/ outcome = "ok",
                            !.done = IF outcome = "ok" THEN FALSE ELSE @,
                            !.ends = Append(@, [symbol |-> req.symbol, outcome |-> outcome]),
                            !.snap = IF Len(fetches) = 1 THEN @ ELSE << >> ]
            /\ UNCHANGED <<sim, ledgerVars>>

ReplayNext ==
    \/ RplPlay \/ RplPause \/ RplSetSpeed \/ RplReset \/ RplTimeout
    \/ RplLoad \/ RplLoadEnd

----------------------------------------------------------------------------
(* A replay of a loaded series to its end: the Replay Driver alone, with    *)
(* play, pause and setSpeed calls between the ticks                          *)

\* the driver after loadSymbol(symbol) resolved with the symbol's series
Loaded(symbol) ==
    LET e == RealLoadStart(RealMarketEngine, symbol, "1y")
    IN  RealLoadEnd(e, [symbol |-> e.symbol, range |-> "1y"], "ok")

LivePlay ==
    /\ real' = Renumber(RealPlay(real))
    /\ trace' = [trace EXCEPT !.op = ReplayCall("play", << >>, << >>, "")]
    /\ UNCHANGED <<sim, fetches, ledgerVars, appVars>>

LivePause ==
    /\ trace.calls < MaxReplayCalls
    /\ real' = Renumber(RealPause(real))
    /\ trace' = [ trace EXCEPT !.op = ReplayCall("pause", << >>, << >>, ""),
                               !.calls = @ + 1 ]
    /\ UNCHANGED <<sim, fetches, ledgerVars, appVars>>

LiveSetSpeed ==
    \E s \in Speeds :
        /\ trace.calls < MaxReplayCalls
        /\ real' = Renumber(RealSetSpeed(real, s))
        /\ trace' = [ trace EXCEPT !.op = ReplayCall("setSpeed", << >>, << >>, ""),
                                   !.calls = @ + 1 ]
        /\ UNCHANGED <<sim, fetches, ledgerVars, appVars>>

\* a pending timeout of the replay driver fires
LiveTimeout ==
    \E t \in real.timers :
        LET signals == TimeoutSignals(real, << >>)
        IN  /\ real' = Renumber(RealTimeout(real, t, << >>))
            /\ trace' = [ trace EXCEPT
                            !.op = ReplayCall("timeout", signals, << >>, ""),
                            !.done = @ \/ Emitted(signals, "complete") ]
            /\ UNCHANGED <<sim, fetches, ledgerVars, appVars>>

LiveNext == LivePlay \/ LivePause \/ LiveSetSpeed \/ LiveTimeout

----------------------------------------------------------------------------
(* Move generation and scoring of the synthetic Decision Engine, applied to
   the AI ledger trade after trade: one strategy condition holds for one
   symbol, its move is scored and, scoring above the threshold, executed *)

\* edge * 5 * stratWeight + avgOutcome * 10, in hundredths: what _scoreMove
\* has before it looks at the position (the lookahead draws Math.random)
RawScores == {-20, 30, 100}

\* the quotes a generation reads: those of the market, and one at which a
\* quarter of the starting cash buys a single share
MoveQuotes ==
    MarketQuotes \cup { [s \in Symbols |-> IF s = "NOVA" THEN 2400 ELSE 50] }

\* a score of _scoreMove that is never cut for concentration
ScoreMoveNoCut(move, p, prices, raw) ==
    LET s0 == RatInt(raw)
        s1 == IF move.action = "BUY" /\ 2 * move.qty * move.price > p.cash
              THEN RatDivInt(s0, 2) ELSE s0
    IN  IF RatGt(s1, RatInt(0)) THEN s1 ELSE RatInt(0)

\* _scoreMove(move, prices) on the ledger p, raw being the score before the
\* position sizing and concentration rules; an exact rational, in hundredths
ScoreMove(move, p, prices, raw) ==
    LET s0 == RatInt(raw)
        s1 == IF move.action = "BUY" /\ 2 * move.qty * move.price > p.cash
              THEN RatDivInt(s0, 2) ELSE s0
        concentrated ==
            /\ move.action = "BUY" /\ Held(p, move.symbol)
            /\ 10 * p.holdings[move.symbol].qty * move.price
                 > 3 * totalValue(p, prices)
        s2 == IF concentrated THEN RatDivInt(RatMulInt(s1, 3), 10) ELSE s1
    IN  IF RatGt(s2, RatInt(0)) THEN s2 ELSE RatInt(0)

\* one generated move: the candidate, its raw and final score, the ledger and
\* the quotes it was generated from, the ledger after it was executed (or not)
Scored(move, raw, score, before, prices, after) ==
    [ move |-> move, raw |-> raw, score |-> score, before |-> before,
      prices |-> prices, after |-> after ]

\* evaluate() with slot k firing for one symbol: _generateMoves, _scoreMove
\* and, for a score above the threshold, _executeTrade
GenerateAndTrade ==
    \E symbol \in Symbols, k \in 1..Len(SimSlots), prices \in MoveQuotes,
       raw \in RawScores :
        LET p == app.aiPortfolio
            moves == SimMoves(p, symbol, prices[symbol], {<<symbol, k>>},
                              [f \in {<<symbol, k>>} |-> 0])
            move == moves[1]
            score == ScoreMove(move, p, prices, raw)
            r == IF RatGt(score, RatInt(SimThreshold))
                 THEN ExecuteTrade(p, move, 0, evals.n + 1)
                 ELSE [pf |-> p, ret |-> << >>]
        IN  /\ evals.n < MaxMoveOps
            /\ moves # << >>
            /\ app' = [app EXCEPT !.aiPortfolio = r.pf]
            /\ evals' = [ evals EXCEPT
                            !.n = @ + 1,
                            !.last = << Scored(move, raw, score, p, prices, r.pf) >> ]
            /\ UNCHANGED <<playbackVars, ledgerVars, traceVars>>

----------------------------------------------------------------------------
(* The evaluation cadence of the synthetic Decision Engine: the App in sim
   mode through play, the simulator's ticks and the reset button, over a
   run long enough to fill the thinking log. No strategy fires, so every
   evaluation holds; the cadence does not read the strategies. *)

\* _onReset()
OnReset(a) ==
    [ a EXCEPT !.aiPortfolio = reset(@, 0), !.userPortfolio = reset(@, 0) ]

\* what the last step did: the tick evaluate() was called with, the engine
\* and its ledger before the call, the analysis returned, and the number of
\* ticks emitted since the last evaluation or reset
Cadence(name, tick, a, analysis, since) ==
    [ name |-> name, tick |-> tick,
      before |-> [ai |-> a.ai, pf |-> a.aiPortfolio],
      analysis |-> analysis, since |-> since ]

\* the play button in sim mode
CadPlay ==
    /\ sim.paused
    /\ sim' = Renumber(MarketPlay(sim))
    /\ trace' = [trace EXCEPT !.op = Cadence("play", sim.tick, app, << >>, @.since)]
    /\ UNCHANGED <<real, fetches, ledgerVars, appVars>>

\* the reset button in sim mode: _reset() calls market.reset(), whose 'reset'
\* signal runs _onReset()
CadReset ==
    /\ trace.calls < MaxCadenceResets
    /\ sim' = Renumber(MarketReset(sim))
    /\ app' = OnReset(app)
    /\ trace' = [trace EXCEPT !.calls = @ + 1,
                              !.op = Cadence("reset", 0, app, << >>, 0)]
    /\ UNCHANGED <<real, fetches, ledgerVars, evals>>

\* a pending timeout of the simulator fires: 'dayClose' on a day boundary,
\* then 'tick', for which _onTick calls evaluate(data.tick)
CadTimeout ==
    \E t \in sim.timers, closing \in MarketQuotes, prices \in MarketQuotes :
        LET e0 == [sim EXCEPT !.timers = @ \ {t}]
            isNewDay == e0.tick % TicksPerDay = 0 /\ e0.tick > 0
            e1 == TickWith(e0, AppDraw(e0), << >>, << >>)
            a1 == IF isNewDay THEN OnDayClose(app, closing) ELSE app
            r == OnTick(a1, e1, prices, {}, << >>)
        IN  /\ sim.tick < MaxCadenceTicks
            /\ sim' = Renumber(MarketSchedule(r.market))
            /\ app' = [a1 EXCEPT !.ai = r.ai, !.aiPortfolio = r.pf]
            /\ trace' = [trace EXCEPT !.op =
                            Cadence("tick", e1.tick, a1, r.analysis,
                                    IF r.analysis # << >> THEN 0 ELSE @.since + 1)]
            /\ UNCHANGED <<real, fetches, ledgerVars, evals>>

CadenceNext == CadPlay \/ CadReset \/ CadTimeout

----------------------------------------------------------------------------
(* Specifications *)

vars == <<ledgerVars, playbackVars, appVars, traceVars>>

Init == LedgerInit /\ PlaybackInit /\ AppInit /\ TraceInit

\* the ledger under every sequence of calls
Next == LedgerNext

Spec == Init /\ [][Next]_vars

\* the two engines under every sequence of playback calls, timer firings and
\* loads
SpecPlayback == Init /\ [][PlaybackNext]_vars

\* the App in either mode: its play button, the engines' timers and the
\* loads of real mode
InitApp ==
    /\ LedgerInit /\ PlaybackInit
    /\ app \in { App(m) : m \in Modes }
    /\ evals = [n |-> 0, loads |-> 0, last |-> << >>]
    /\ TraceInit

SpecApp == InitApp /\ [][AppNext]_vars

\* the App with the user trading beside the Decision Engines
SpecLedgers == InitApp /\ [][LedgersNext]_vars

----------------------------------------------------------------------------
(* The App's mode toggle and its control buttons *)

\* the ticks of an engine and the timers it sets while the mode is switched
MaxModeTicks == 2
MaxModeTimers == 3

\* _switchMode(mode) leaving the engines as they are
SwitchModeKeepsPlaying(a, e, re, mode) ==
    [ sim |-> e, real |-> re, app |-> [a EXCEPT !.mode = mode] ]

\* _switchMode(mode): both engines are paused, then the mode is set
SwitchMode(a, e, re, mode) ==
    [ sim |-> MarketPause(e), real |-> RealPause(re),
      app |-> [a EXCEPT !.mode = mode] ]

\* a mode button or a mode card is clicked
ModeSwitch ==
    \E mode \in Modes :
        LET x == SwitchMode(app, sim, real, mode)
        IN  /\ sim' = x.sim /\ real' = x.real /\ app' = x.app
            /\ UNCHANGED <<evals, fetches, ledgerVars, traceVars>>

\* the pause button
ModePause ==
    /\ IF app.mode = "sim"
       THEN sim' = MarketPause(sim) /\ UNCHANGED real
       ELSE real' = RealPause(real) /\ UNCHANGED sim
    /\ UNCHANGED <<fetches, ledgerVars, appVars, traceVars>>

\* the reset button: _reset() in synthetic mode, realMarket.reset() in real
\* mode, the App hearing 'reset'
ModeReset ==
    /\ IF app.mode = "sim"
       THEN /\ sim' = MarketReset(sim)
            /\ app' = OnReset(app)
            /\ UNCHANGED <<real, evals>>
       ELSE LET x == AppReset([e |-> real, app |-> app, evals |-> evals])
            IN  /\ real' = x.e /\ app' = x.app /\ evals' = x.evals
                /\ UNCHANGED sim
    /\ UNCHANGED <<fetches, ledgerVars, traceVars>>

\* a speed button: setSpeed on both engines
ModeSetSpeed ==
    \E s \in Speeds :
        /\ sim' = MarketSetSpeed(sim, s)
        /\ real' = RealSetSpeed(real, s)
        /\ UNCHANGED <<fetches, ledgerVars, appVars, traceVars>>

\* the timers and ticks followed
ModesBound ==
    /\ sim.nextTimer <= MaxModeTimers /\ real.nextTimer <= MaxModeTimers
    /\ sim.tick < MaxModeTicks /\ real.tick < MaxModeTicks

ModesNext ==
    \/ ModesBound /\ AppNext
    \/ ModesBound /\ ModeSwitch
    \/ ModesBound /\ ModePause
    \/ ModesBound /\ ModeReset
    \/ ModesBound /\ ModeSetSpeed

\* the App under every sequence of mode switches, control buttons, timer
\* firings and loads
SpecModes == InitApp /\ [][ModesNext]_vars

----------------------------------------------------------------------------
(* Indicators (indicators.js), on integer closes with exact arithmetic *)

\* null in a result array; a number v is carried as << v >>
NoValue == << >>

\* a / b for b finite and not zero
RatDiv(a, b) == Rat(a.n * b.d, a.d * b.n)

\* data[from] + ... + data[to], indices from 1
RECURSIVE SumOf(_, _, _)
SumOf(data, from, to) ==
    IF from > to THEN 0 ELSE data[to] + SumOf(data, from, to - 1)

\* SMA(data, period) warming up one index longer
SMAWarmsLate(data, period) ==
    [ k \in 1..Len(data) |->
        IF k - 1 < period THEN NoValue
        ELSE << Rat(SumOf(data, k - period + 1, k), period) >> ]

\* Indicators.SMA(data, period); index i of the code is k - 1
SMA(data, period) ==
    [ k \in 1..Len(data) |->
        IF k - 1 < period - 1 THEN NoValue
        ELSE << Rat(SumOf(data, k - period + 1, k), period) >> ]

\* the variable ema of EMA(data, period) after index k - 1, for k >= period
RECURSIVE EmaAt(_, _, _)
EmaAt(data, period, k) ==
    IF k = period THEN Rat(SumOf(data, 1, period), period)
    ELSE LET ema == EmaAt(data, period, k - 1)
         IN  \* data[i] * k + ema * (1 - k), k = 2 / (period + 1)
             Rat(2 * data[k] * ema.d + ema.n * (period - 1), ema.d * (period + 1))

\* Indicators.EMA(data, period)
EMA(data, period) ==
    [ k \in 1..Len(data) |->
        IF k - 1 < period - 1 THEN NoValue ELSE << EmaAt(data, period, k) >> ]

\* the variables gains and losses of RSI(closes, period) after index i >= 0
RECURSIVE RsiAverages(_, _, _)
RsiAverages(closes, period, i) ==
    IF i = 0 THEN [gains |-> RatInt(0), losses |-> RatInt(0)]
    ELSE LET avg == RsiAverages(closes, period, i - 1)
             change == closes[i + 1] - closes[i]
         IN  IF i <= period
             THEN LET g == IF change > 0 THEN RatAddInt(avg.gains, change)
                           ELSE avg.gains
                      l == IF change > 0 THEN avg.losses
                           ELSE RatAddInt(avg.losses, -change)
                  IN  IF i < period THEN [gains |-> g, losses |-> l]
                      ELSE [ gains |-> RatDivInt(g, period),
                             losses |-> RatDivInt(l, period) ]
             ELSE [ gains |-> RatDivInt(RatAddInt(RatMulInt(avg.gains, period - 1),
                                                  IF change > 0 THEN change ELSE 0),
                                        period),
                    losses |-> RatDivInt(RatAddInt(RatMulInt(avg.losses, period - 1),
                                                   IF change < 0 THEN -change ELSE 0),
                                         period) ]

\* 100 - 100 / (1 + rs)
RsiOf(rs) == Rat(100 * (rs.n + rs.d) - 100 * rs.d, rs.n + rs.d)

\* Indicators.RSI(closes, period)
RSI(closes, period) ==
    [ k \in 1..Len(closes) |->
        IF k - 1 = 0 \/ k - 1 < period THEN NoValue
        ELSE LET a == RsiAverages(closes, period, k - 1)
                 rs == IF a.losses = RatInt(0) THEN RatInt(100)
                       ELSE RatDiv(a.gains, a.losses)
             IN  << RsiOf(rs) >> ]

\* a band of BollingerBands: sma + times * Math.sqrt(variance / period), the
\* root carried by its square
Band(sma, times, var) == [sma |-> sma, times |-> times, var |-> var]

\* Indicators.BollingerBands(closes, period, mult)
BollingerBands(closes, period, mult) ==
    LET sma == SMA(closes, period)
        \* the sum of (closes[j] - sma[i]) ** 2 over the window, divided by period
        var(k) == LET s == SumOf(closes, k - period + 1, k)
                      sq(j) == (closes[j] * period - s) * (closes[j] * period - s)
                      RECURSIVE sumSq(_)
                      sumSq(j) == IF j > k THEN 0 ELSE sq(j) + sumSq(j + 1)
                  IN  Rat(sumSq(k - period + 1), period * period * period)
        band(times) ==
            [ k \in 1..Len(closes) |->
                IF sma[k] = NoValue THEN NoValue
                ELSE << Band(sma[k][1], times, var(k)) >> ]
    IN  [ upper |-> band(mult), middle |-> sma, lower |-> band(-mult) ]

\* the longest series of arbitrary moves, and of a rally
MaxSeriesLen == 5
MaxRallyLen == 16

Periods == {1, 2, 3, 14}

FirstClose == 10

\* the indicators of a series and a period
Computed(data, period) ==
    [ data |-> data, period |-> period,
      SMA |-> SMA(data, period), EMA |-> EMA(data, period),
      RSI |-> RSI(data, period), BB |-> BollingerBands(data, period, 2) ]

\* the series ends above the close before
Rising(data) == \A k \in 2..Len(data) : data[k] > data[k - 1]

\* one more close is appended and the indicators are computed
PushClose ==
    \E step \in {-1, 0, 1} :
        /\ Len(trace.data) < MaxSeriesLen
        /\ trace' = Computed(Append(trace.data,
                                    IF trace.data = << >> THEN FirstClose
                                    ELSE trace.data[Len(trace.data)] + step),
                             trace.period)
        /\ UNCHANGED <<ledgerVars, playbackVars, appVars>>

\* a rally goes on until RSI has two values: one more close above the last
PushRally ==
    /\ Len(trace.data) >= MaxSeriesLen /\ Len(trace.data) < MaxRallyLen
    /\ Len(trace.data) < trace.period + 2
    /\ Rising(trace.data)
    /\ trace' = Computed(Append(trace.data, trace.data[Len(trace.data)] + 1),
                         trace.period)
    /\ UNCHANGED <<ledgerVars, playbackVars, appVars>>

InitIndicators ==
    /\ LedgerInit /\ PlaybackInit /\ AppInit
    /\ trace \in { Computed(<< >>, period) : period \in Periods }

\* the indicators over every short series and every rally
SpecIndicators == InitIndicators /\ [][PushClose \/ PushRally]_vars

\* the Market Simulator with its instruments under every sequence of calls,
\* timer firings, random draws and listener calls
SpecMarket == Init /\ [][MarketNext]_vars

InitReplay ==
    /\ LedgerInit /\ PlaybackInit
    /\ app = App("real")
    /\ evals = [n |-> 0, loads |-> 0, last |-> << >>]
    /\ TraceInit

\* the Replay Driver in real mode under every sequence of calls, timer
\* firings, history requests and listener calls
SpecReplay == InitReplay /\ [][ReplayNext]_vars

InitLive ==
    /\ LedgerInit
    /\ sim = MarketEngine
    /\ real \in { Loaded(symbol) : symbol \in Typed }
    /\ fetches = << >>
    /\ app = App("real")
    /\ evals = [n |-> 0, loads |-> 0, last |-> << >>]
    /\ trace = [ calls |-> 0, op |-> NoCall, loaded |-> TRUE, done |-> FALSE,
                 issued |-> << >>, ends |-> << >>, snap |-> << >> ]

\* a replay from a loaded series on, every pending timeout firing in the end
\* (setTimeout) and play pressed again whenever it has an effect
SpecReplayLive ==
    /\ InitLive /\ [][LiveNext]_vars
    /\ WF_vars(LiveTimeout) /\ WF_vars(LivePlay)

InitCadence ==
    /\ LedgerInit /\ PlaybackInit /\ AppInit
    /\ trace = [ calls |-> 0, op |-> Cadence("new", 0, App("sim"), << >>, 0),
                 loaded |-> FALSE, done |-> FALSE,
                 issued |-> << >>, ends |-> << >>, snap |-> << >> ]

\* the App in sim mode under play, the simulator's timer and the reset button
SpecCadence == InitCadence /\ [][CadenceNext]_vars

\* the synthetic Decision Engine generating, scoring and executing moves on
\* the AI ledger
SpecMoves == Init /\ [][GenerateAndTrade]_vars

----------------------------------------------------------------------------
(* Claims about the Portfolio ledger *)

\* the call before the last one was buy(s, q, p) and the last one
\* sell(s, q, p), same symbol, quantity and price
RoundTrip ==
    /\ prev.op = "buy" /\ last.op = "sell"
    /\ last.symbol = prev.symbol /\ last.qty = prev.qty
    /\ last.price = prev.price

\* the ledger's cash, holdings, trade list and id counter are those of b
SameBooks(p, b) ==
    /\ p.cash = b.cash /\ p.holdings = b.holdings
    /\ p.trades = b.trades /\ p.tradeId = b.tradeId

\* C1: after every buy and sell call, whatever the symbol, quantity and price
\* passed (those of the user trade form included), cash >= 0 and every
\* holding's quantity >= 0.
C1_NonNegative ==
    /\ pf.cash >= 0
    /\ \A s \in DOMAIN pf.holdings : pf.holdings[s].qty >= 0

\* C2 (as claimed): buy(s, q, p) followed immediately by sell(s, q, p) puts
\* cash back to its value before the buy, yields a SELL record with realized
\* P&L 0 and removes the holding for s.  Stated for the quantities q >= 1 a
\* round trip is made with.
C2_RoundTripAsClaimed ==
    (RoundTrip /\ prev.qty >= 1) =>
        /\ pf.cash = prev.before.cash
        /\ Len(last.ret) = 1 /\ last.ret[1].pnl = RatInt(0)
        /\ ~Held(pf, last.symbol)

\* C2 (amended): the same, when s is not held before the buy, q >= 1 and the
\* buy is executed (returns a trade).
C2_RoundTripFresh ==
    ( /\ RoundTrip
      /\ ~Held(prev.before, prev.symbol)
      /\ prev.qty >= 1
      /\ Len(prev.ret) = 1 ) =>
        /\ pf.cash = prev.before.cash
        /\ Len(last.ret) = 1
        /\ last.ret[1].side = "SELL" /\ last.ret[1].pnl = RatInt(0)
        /\ ~Held(pf, last.symbol)

C2_Witness ==
    /\ RoundTrip
    /\ ~Held(prev.before, prev.symbol)
    /\ prev.qty >= 1
    /\ Len(prev.ret) = 1 /\ Len(last.ret) = 1
    /\ prev.ret[1].qty < prev.qty
    /\ pf.cash = prev.before.cash

\* the first step of the scenario: buy 10 NOVA at 100 with cash 10000
ScenarioBuy(o) ==
    /\ o.op = "buy" /\ o.symbol = "NOVA" /\ o.qty = 10 /\ o.price = 100
    /\ o.before.cash = 10000 /\ ~Held(o.before, "NOVA")

\* the second step: sell 5 NOVA at 120
ScenarioSell(o) ==
    o.op = "sell" /\ o.symbol = "NOVA" /\ o.qty = 5 /\ o.price = 120

\* C3: from cash 10000, buy 10 at 100 gives cash 9000 and holding
\* {qty 10, avgCost 100}; a following sell of 5 at 120 gives cash 9600, a SELL
\* record with realized P&L 100 and holding {qty 5, avgCost 100}.
C3_Scenario ==
    /\ ScenarioBuy(last) =>
          /\ pf.cash = 9000
          /\ Held(pf, "NOVA")
          /\ pf.holdings["NOVA"] = [qty |-> 10, avgCost |-> RatInt(100)]
    /\ (ScenarioBuy(prev) /\ ScenarioSell(last)) =>
          /\ pf.cash = 9600
          /\ Len(last.ret) = 1
          /\ last.ret[1].side = "SELL" /\ last.ret[1].pnl = RatInt(100)
          /\ Held(pf, "NOVA")
          /\ pf.holdings["NOVA"] = [qty |-> 5, avgCost |-> RatInt(100)]

C3_Witness ==
    ScenarioBuy(prev) /\ ScenarioSell(last) /\ pf.cash = 9600

\* C4: a buy whose quantity, clamped to what cash affords at the price, is
\* <= 0, and a sell of a symbol that is not held, return no trade and leave
\* cash, holdings, trade list and id counter unchanged.
C4_NoTradeNoChange ==
    ( \/ /\ last.op = "buy"
         /\ Min(last.qty, last.before.cash \div last.price) <= 0
      \/ /\ last.op = "sell"
         /\ ~Held(last.before, last.symbol) ) =>
        /\ last.ret = << >>
        /\ SameBooks(pf, last.before)

\* C5: the holdings map never contains an entry with quantity 0.
C5_NoZeroHolding ==
    \A s \in DOMAIN pf.holdings : pf.holdings[s].qty # 0

\* the trade records of symbol s, in order
RECURSIVE TradesOf(_, _)
TradesOf(ts, s) ==
    IF ts = << >> THEN << >>
    ELSE LET rest == TradesOf(SubSeq(ts, 1, Len(ts) - 1), s)
             t == ts[Len(ts)]
         IN  IF t.symbol = s THEN Append(rest, t) ELSE rest

\* shares bought minus shares sold over the records ts
RECURSIVE NetQty(_)
NetQty(ts) ==
    IF ts = << >> THEN 0
    ELSE LET t == ts[Len(ts)]
         IN  NetQty(SubSeq(ts, 1, Len(ts) - 1))
             + (IF t.side = "BUY" THEN t.qty ELSE -t.qty)

\* every share of s that was bought has been sold, the last trade in s
\* being the sell that took the rest
SoldInFull(p, s) ==
    LET ts == TradesOf(p.trades, s)
    IN  ts = << >> \/ (ts[Len(ts)].side = "SELL" /\ NetQty(ts) = 0)

AllSold(p) ==
    /\ \E k \in 1..Len(p.trades) : p.trades[k].side = "SELL"
    /\ \A s \in Symbols : SoldInFull(p, s)

\* C6: once every holding has been sold in full, totalValue(prices) = cash
\* for every price map.
C6_LiquidatedValueIsCash ==
    AllSold(pf) => \A pm \in PriceMaps \cup {NoPrices} : totalValue(pf, pm) = pf.cash

C6_Witness ==
    /\ AllSold(pf)
    /\ last.op = "sell" /\ Len(last.ret) = 1
    /\ Len(pf.trades) >= 3
    /\ pf.cash # pf.startingCash

\* C7: between two resets maxDrawdown never decreases, peakValue never
\* decreases, and after an updateMetrics call peakValue is >= the total value
\* that call observed.
C7_DrawdownMonotone ==
    last.op \in {"buy", "sell", "updateMetrics"} =>
        /\ RatGe(pf.maxDrawdown, last.before.maxDrawdown)
        /\ pf.peakValue >= last.before.peakValue
        /\ last.op = "updateMetrics" =>
              pf.peakValue >= totalValue(last.before, last.prices)

\* a second updateMetrics call that saw the value recovered from a drawdown
C7_Witness ==
    /\ prev.op = "updateMetrics" /\ last.op = "updateMetrics"
    /\ RatGt(pf.maxDrawdown, RatInt(0))
    /\ totalValue(last.before, last.prices) > totalValue(prev.before, prev.prices)
    /\ pf.maxDrawdown = last.before.maxDrawdown

\* C8: the k-th trade record has id k, the trade count equals the id counter,
\* and buy, sell and updateMetrics leave every existing record as it was.
C8_TradeIds ==
    /\ Len(pf.trades) = pf.tradeId
    /\ \A k \in 1..Len(pf.trades) : pf.trades[k].id = k
    /\ last.op \in {"buy", "sell", "updateMetrics"} =>
          /\ Len(pf.trades) >= Len(last.before.trades)
          /\ SubSeq(pf.trades, 1, Len(last.before.trades)) = last.before.trades

C8_Witness ==
    /\ Len(pf.trades) = 3
    /\ pf.trades[2].side = "SELL"
    /\ pf.trades[3].side = "BUY"

----------------------------------------------------------------------------
(* Claims about playback control *)

\* the engine has no pending timeout while paused and exactly one while
\* playing
OneTimer(e) ==
    IF e.paused THEN e.timers = {} ELSE Cardinality(e.timers) = 1

\* C10: between handler runs the Market Simulator and the Replay Driver each
\* own at most one pending tick callback, none while paused and exactly one
\* while playing, whatever play, pause, setSpeed and reset calls were made,
\* between ticks or from a listener during a tick.
C10_OnePendingTimer == OneTimer(sim) /\ OneTimer(real)

----------------------------------------------------------------------------
(* Claims about the Market Simulator's instruments *)

\* the instruments, counters and events of the simulator are those of a
\* freshly constructed one
FreshInstruments(e) ==
    /\ \A s \in Symbols :
          LET st == e.stocks[s]
          IN  /\ st.price = BasePrice(s) /\ st.open = BasePrice(s)
              /\ st.high = BasePrice(s) /\ st.low = BasePrice(s)
              /\ st.history = << >> /\ st.tickHistory = 0
              /\ st.eventEffect = RatInt(0) /\ st.eventTicks = 0
    /\ e.tick = 0 /\ e.day = 0
    /\ e.activeEvents = << >> /\ e.eventLog = << >>

\* C12: right after a reset() call on the Market Simulator, from any state,
\* every instrument is at its base price with empty bar history and tick
\* trace and no event effect, tick and day are 0, no event is active or
\* logged, and the engine is paused with no pending timer.
C12_ResetRestoresInitial ==
    trace.op.name = "reset" =>
        /\ FreshInstruments(sim)
        /\ sim.paused /\ sim.timers = {}

\* C13: in every state every simulated instrument has a price of at least
\* one cent and low <= price <= high for its open bar.
C13_PriceWithinBar ==
    \A s \in Symbols :
        /\ sim.stocks[s].price >= 1
        /\ sim.stocks[s].low <= sim.stocks[s].price
        /\ sim.stocks[s].price <= sim.stocks[s].high

\* a tick of the second trading day has left an instrument at the floor,
\* below the high of its open bar, after a draw below zero
C13_Witness ==
    /\ trace.op.name = "tick" /\ sim.day = 1
    /\ sim.stocks["NOVA"].price = 1
    /\ sim.stocks["NOVA"].low = 1
    /\ sim.stocks["NOVA"].high = 18000

IsPrefix(a, b) == Len(a) <= Len(b) /\ \A i \in 1..Len(a) : a[i] = b[i]

\* C14: in every state each instrument's bar history has as many bars as the
\* day counter says, its i-th bar (counting from 0) carries time i, each bar
\* has low <= open, close <= high, and a tick leaves the bars appended before
\* it as they were.
C14_OneBarPerDay ==
    \A s \in Symbols :
        LET h == sim.stocks[s].history
        IN  /\ Len(h) = sim.day
            /\ \A i \in 1..Len(h) :
                  /\ h[i].time = i - 1
                  /\ h[i].low <= h[i].open /\ h[i].open <= h[i].high
                  /\ h[i].low <= h[i].close /\ h[i].close <= h[i].high
            /\ trace.op.name = "tick" => IsPrefix(trace.op.before.bars[s], h)

----------------------------------------------------------------------------
(* Claims about the Replay Driver *)

\* what a replay has accumulated on driver e
Accumulated(e) ==
    [ tick |-> e.tick, day |-> e.day, replayIndex |-> e.replayIndex,
      replayCandles |-> e.replayCandles, candles |-> e.candles,
      symbol |-> e.symbol, symbolInfo |-> e.symbolInfo ]

\* C11: a setSpeed(s) call on the Replay Driver leaves its tick and day
\* counters, replay index, series and revealed bars as they were, and the
\* driver is playing after the call exactly if it was playing before it.
C11_SetSpeedKeepsState ==
    trace.op.name = "setSpeed" =>
        /\ Accumulated(real) = Accumulated(trace.op.before)
        /\ real.paused = trace.op.before.paused

TickSignals(signals) == { i \in 1..Len(signals) : signals[i].evt = "tick" }

\* C15: a load whose series is empty ends with the error signal emitted, the
\* error recorded and loading cleared; and as long as no load has succeeded
\* no operation emits a tick signal and no bar is revealed.
C15_EmptySeriesNoTick ==
    /\ (trace.op.name = "loadEnd" /\ trace.op.outcome = "empty") =>
          /\ Emitted(trace.op.signals, "error")
          /\ real.error # ""
          /\ ~real.loading
    /\ ~trace.loaded =>
          /\ TickSignals(trace.op.signals) = {}
          /\ real.replayCandles = << >> /\ real.tick = 0

\* play() was called after a load that found an empty series and no load
\* has succeeded: the driver stays paused with no timer and no bar revealed
C15_Witness ==
    /\ trace.op.name = "play" /\ ~trace.loaded
    /\ \E i \in 1..Len(trace.ends) : trace.ends[i].outcome = "empty"
    /\ real.error = "No historical data available"
    /\ real.paused /\ real.timers = {}

\* C16: a history request that fails, with nothing else done between the
\* request and its failure, ends in the error state and leaves the symbol,
\* range, series, revealed bars, replay index, counters, play/pause status
\* and both replay ledgers as they were before the request.
C16_FailedLoadKeepsState ==
    (/\ trace.op.name = "loadEnd" /\ trace.op.outcome # "ok"
     /\ trace.snap # << >>) =>
        LET was == trace.snap[1]
        IN  /\ Emitted(trace.op.signals, "error")
            /\ real.error # "" /\ ~real.loading
            /\ Accumulated(real) = Accumulated(was.e)
            /\ real.range = was.e.range
            /\ real.paused = was.e.paused
            /\ app.realAiPortfolio = was.ai
            /\ app.realUserPortfolio = was.user

\* C17: when two history requests overlapped and both have resolved with a
\* series, the driver reports the symbol of the request issued last and
\* holds that symbol's info and series, its first bar revealed.
C17_LastRequestWins ==
    (/\ trace.op.name = "loadEnd"
     /\ Len(trace.issued) = 2 /\ trace.issued[2].overlap
     /\ Len(trace.ends) = 2
     /\ \A i \in 1..2 : trace.ends[i].outcome = "ok") =>
        LET latest == trace.issued[2].symbol
        IN  /\ real.symbol = latest
            /\ real.symbolInfo = latest
            /\ real.candles = Series(latest)
            /\ real.replayCandles = SubSeq(Series(latest), 1, 1)

\* every bar of a loaded series has been revealed
AllRevealed == Len(real.candles) >= 1 /\ real.replayIndex >= Len(real.candles)

\* C18: whenever all bars of the loaded series have been revealed, the
\* complete signal is emitted in the end, timers firing and play being
\* pressed again and again.
C18_EndLeadsToComplete == AllRevealed ~> trace.done

\* C19: once complete has been emitted, and until a reset or a successful
\* load, the driver is paused with no pending timer, play() changes nothing,
\* and no operation emits tick or complete or changes the revealed bars.
C19_CompleteIsTerminal ==
    /\ trace.done => real.paused /\ real.timers = {}
    /\ (/\ trace.op.wasDone
        /\ trace.op.name \notin {"new", "reset"}
        /\ ~(trace.op.name = "loadEnd" /\ trace.op.outcome = "ok")
        /\ ~Resets(trace.op.script)) =>
          /\ ~Emitted(trace.op.signals, "tick")
          /\ ~Emitted(trace.op.signals, "complete")
          /\ real.replayCandles = trace.op.before.replayCandles
          /\ trace.op.name = "play" => real = trace.op.before

\* C20: between operations the revealed bars are the first replayIndex bars
\* of the series, the tick counter equals replayIndex, and every tick signal
\* of the last operation carried progress = bars revealed / total bars,
\* above 0 and at most 1.
C20_OneBarPerTick ==
    /\ real.replayIndex <= Len(real.candles)
    /\ real.replayCandles = SubSeq(real.candles, 1, real.replayIndex)
    /\ real.tick = real.replayIndex
    /\ \A i \in TickSignals(trace.op.signals) :
          LET sig == trace.op.signals[i]
          IN  /\ sig.num = sig.revealed
              /\ 0 < sig.num /\ sig.num <= sig.den

----------------------------------------------------------------------------
(* Claims about the Decision Engine *)

\* the evaluation cycles on record (none before the first cycle)
LastEvaluations == { evals.last[i] : i \in 1..Len(evals.last) }

\* the conviction threshold the claim gives for an engine, in hundredths
ClaimedThreshold(engine) == IF engine = "sim" THEN 10 ELSE 50

\* C9: in every evaluation cycle, a chosen move that is a candidate (not
\* HOLD) is the highest-scored candidate and scores strictly more than the
\* conviction threshold (0.1 in the synthetic engine, 0.5 in the replay
\* variant); when no candidate scores more than the threshold the chosen move
\* is HOLD and the cycle trades nothing: no trade record, and the engine's
\* ledger keeps its cash, holdings, trade list and id counter.
C9_ChosenClearsThreshold ==
    \A e \in LastEvaluations :
        LET cs == { e.candidates[i] : i \in 1..Len(e.candidates) }
            th == ClaimedThreshold(e.engine)
        IN  /\ e.chosen.action # "HOLD" =>
                  /\ e.chosen \in cs
                  /\ e.chosen.score > th
                  /\ \A c \in cs : c.score <= e.chosen.score
            /\ (\A c \in cs : c.score <= th) =>
                  /\ e.chosen.action = "HOLD"
                  /\ e.ret = << >>
                  /\ SameBooks(e.after, e.before)

\* a replay cycle, the ledger holding the shares an earlier cycle bought,
\* whose only candidate scored exactly the threshold and was held
C9_Witness ==
    \E e \in LastEvaluations :
        /\ e.engine = "real"
        /\ Len(e.candidates) = 1
        /\ e.candidates[1].score = 50
        /\ e.chosen.action = "HOLD"
        /\ Len(e.before.trades) = 1

----------------------------------------------------------------------------
(* The Decision Engine's cadence and thinking log *)

\* the last step was a tick whose evaluate() call held an evaluation
EvaluatedTick == trace.op.name = "tick" /\ trace.op.analysis # << >>

\* C21: two consecutive evaluations are at least tradeFrequency ticks apart
\* in the tick numbers evaluate() was called with, and a call that comes
\* sooner returns no analysis and changes neither the engine nor its ledger
C21_NeverOversamples ==
    /\ \A i \in 1..(Len(app.ai.thinkingLog) - 1) :
          app.ai.thinkingLog[i] - app.ai.thinkingLog[i + 1] >= TradeFrequency
    /\ EvaluatedTick =>
          trace.op.tick - trace.op.before.ai.lastEvalTick >= TradeFrequency
    /\ ( /\ trace.op.name = "tick"
         /\ trace.op.tick - trace.op.before.ai.lastEvalTick < TradeFrequency )
       => /\ trace.op.analysis = << >>
          /\ app.ai = trace.op.before.ai
          /\ app.aiPortfolio = trace.op.before.pf

\* two evaluations were held and the call after them came too soon
C21_Witness ==
    /\ trace.op.name = "tick" /\ trace.op.analysis = << >>
    /\ Len(app.ai.thinkingLog) = 2

\* C22: at any point of a synthetic run, a reset included, fewer than
\* tradeFrequency ticks have been emitted without an evaluation since the
\* last evaluation or reset
C22_EvaluatesEveryNTicks == trace.op.since < TradeFrequency

\* C23: the thinking log never holds more than 50 entries, and an evaluation
\* puts its trace at index 0 before the earlier traces in their order, the
\* oldest dropped once 50 were held
C23_RollingLog ==
    /\ Len(app.ai.thinkingLog) <= ThinkingLogCap
    /\ EvaluatedTick =>
          LET old == trace.op.before.ai.thinkingLog
              kept == IF Len(old) >= ThinkingLogCap
                      THEN SubSeq(old, 1, ThinkingLogCap - 1) ELSE old
          IN  app.ai.thinkingLog = <<trace.op.tick>> \o kept

\* an evaluation held with 50 traces in the log
C23_Witness ==
    EvaluatedTick /\ Len(trace.op.before.ai.thinkingLog) = ThinkingLogCap

----------------------------------------------------------------------------
(* The Replay Driver while a history request is in flight *)

\* C24: as long as a history request is in flight the driver is loading,
\* and no operation emits a tick signal or reveals a bar
C24_LoadingUntilResolved ==
    fetches # << >> =>
        /\ real.loading
        /\ ~Emitted(trace.op.signals, "tick")
        /\ real.replayCandles = trace.op.before.replayCandles

\* C25: a history request that resolves with a series leaves the driver
\* paused with no pending timer and exactly the first bar revealed, whatever
\* was called while the request was in flight
C25_LoadedIsPausedAtFirstBar ==
    (trace.op.name = "loadEnd" /\ trace.op.outcome = "ok") =>
        /\ real.paused /\ real.timers = {}
        /\ real.replayIndex = 1 /\ real.tick = 1 /\ real.day = 0
        /\ Len(real.replayCandles) = 1

----------------------------------------------------------------------------
(* The signals and the market events of a simulator tick *)

\* the last step was a tick of the simulator during which no listener called
\* reset()
PlainTick ==
    /\ trace.op.name = "tick"
    /\ ~Resets(trace.op.signals[1]) /\ ~Resets(trace.op.signals[2])

\* C26: a tick that starts a new period emits 'dayClose' for the previous
\* period once, its bar frozen, before its 'tick' signal; every tick emits
\* exactly one 'tick' signal, numbered one more than the tick before, with
\* day = (tick - 1) div ticksPerDay and intraIndex = (tick - 1) mod ticksPerDay
C26_TickSignals ==
    trace.op.name = "tick" =>
        LET was == trace.op.before
            out == was.emitted
            newDay == was.tick % TicksPerDay = 0 /\ was.tick > 0
            sig == out[Len(out)]
        IN  /\ Len(out) = IF newDay THEN 2 ELSE 1
            /\ newDay => /\ out[1].evt = "dayClose"
                         /\ out[1].day = was.day
                         /\ \A s \in Symbols : out[1].bars[s] = was.day + 1
            /\ sig.evt = "tick"
            /\ sig.tick = was.tick + 1
            /\ sig.day = (sig.tick - 1) \div TicksPerDay
            /\ sig.intraIndex = (sig.tick - 1) % TicksPerDay

\* C27: every price update of an instrument with an event in progress takes
\* one off its remaining duration, the tick that spawns an event of duration
\* d leaving d - 1; the effect and the multiplier stay as they are while the
\* duration is positive and are neutral (0 and 1) once it is 0, so that an
\* event is cleared by the d-th update; an instrument whose remaining
\* duration is 0 always has the neutral effect and multiplier
C27_EventCleared ==
    /\ \A s \in Symbols :
          /\ sim.stocks[s].eventTicks >= 0
          /\ sim.stocks[s].eventTicks = 0 =>
                /\ sim.stocks[s].eventEffect = RatInt(0)
                /\ sim.stocks[s].eventVol = 10
    /\ PlainTick =>
          \A s \in Symbols :
            LET was == trace.op.before.events[s]
                ev == trace.op.before.event
                now == sim.stocks[s]
            IN  IF ev # << >> /\ ev[1].symbol = s
                THEN now.eventTicks = ev[1].dur - 1
                ELSE /\ now.eventTicks = Max(0, was.ticks - 1)
                     /\ now.eventTicks > 0 =>
                           now.eventEffect = was.effect /\ now.eventVol = was.vol

\* an event ran out in the last tick: its effect was in force before it
C27_Witness ==
    /\ PlainTick
    /\ \E s \in Symbols :
          /\ trace.op.before.events[s].ticks = 1
          /\ trace.op.before.events[s].effect # RatInt(0)
          /\ sim.stocks[s].eventTicks = 0

\* C28: an event spawned on an instrument that has an event in progress
\* overwrites it: effect, multiplier and remaining duration are those of the
\* new event alone (after the tick's own update), and both events are in
\* the event log
C28_EventOverwrites ==
    (/\ PlainTick /\ trace.op.before.event # << >>
     /\ trace.op.before.events[trace.op.before.event[1].symbol].ticks > 0) =>
        LET ev == trace.op.before.event[1]
            now == sim.stocks[ev.symbol]
            n == Len(sim.eventLog)
        IN  /\ now.eventEffect = Rat(ev.effect, ev.dur)
            /\ now.eventVol = ev.volEffect
            /\ now.eventTicks = ev.dur - 1
            /\ n = Len(trace.op.before.log) + 1
            /\ SubSeq(sim.eventLog, 1, n - 1) = trace.op.before.log
            /\ sim.eventLog[n].type = ev.type /\ sim.eventLog[n].symbol = ev.symbol

\* an event of another kind was spawned over one in progress
C28_Witness ==
    /\ PlainTick /\ trace.op.before.event # << >>
    /\ trace.op.before.events[trace.op.before.event[1].symbol].ticks > 0
    /\ trace.op.before.log # << >>
    /\ trace.op.before.log[Len(trace.op.before.log)].type
         # trace.op.before.event[1].type

----------------------------------------------------------------------------
(* The candidates of the synthetic Decision Engine *)

\* the last step generated a BUY candidate
BuyCandidate == evals.last # << >> /\ evals.last[1].move.action = "BUY"

\* C29: a BUY candidate has quantity >= 1 and quantity x price at most 25%
\* of the ledger's cash at the evaluation, and executing it takes exactly
\* that notional, so at most 25% of the cash held before it, off the cash
C29_BuyWithinQuarterOfCash ==
    BuyCandidate =>
        LET c == evals.last[1]
            spent == c.before.cash - c.after.cash
        IN  /\ c.move.qty >= 1
            /\ 100 * c.move.qty * c.move.price <= 25 * c.before.cash
            /\ spent \in {0, c.move.qty * c.move.price}
            /\ 100 * spent <= 25 * c.before.cash

\* a BUY was executed on a ledger that had traded before, for more than a
\* fifth of its cash
C29_Witness ==
    /\ BuyCandidate
    /\ evals.last[1].before.trades # << >>
    /\ 5 * (evals.last[1].before.cash - evals.last[1].after.cash)
         > evals.last[1].before.cash

\* C30: a BUY candidate's score is 30% of what it would be otherwise exactly
\* when (held quantity + candidate quantity) x price exceeds 30% of the total
\* portfolio value, and the final score is never below 0
C30_ConcentrationCut ==
    BuyCandidate =>
        LET c == evals.last[1]
            held == IF Held(c.before, c.move.symbol)
                    THEN c.before.holdings[c.move.symbol].qty ELSE 0
            resulting == (held + c.move.qty) * c.move.price
            cut == 10 * resulting > 3 * totalValue(c.before, c.prices)
            full == ScoreMoveNoCut(c.move, c.before, c.prices, c.raw)
        IN  /\ RatGe(c.score, RatInt(0))
            /\ c.score = IF cut THEN RatDivInt(RatMulInt(full, 3), 10) ELSE full

----------------------------------------------------------------------------
(* The confidence of the synthetic Decision Engine *)

\* the evaluation cycles of the synthetic engine on record
SimEvaluations == { e \in LastEvaluations : e.engine = "sim" }

\* C31: the confidence of an analysis lies within 0..99; for a chosen BUY or
\* SELL it is the score times 20 wherever that lies within 10..99, and
\* within 10..99 anyhow; for a HOLD it lies within 5..20 and a HOLD whose
\* best rejected candidate scored higher has the higher confidence
C31_ConfidenceRanges ==
    /\ \A e \in SimEvaluations :
          /\ e.confidence >= 0 /\ e.confidence <= 9900
          /\ e.chosen.action # "HOLD" =>
                /\ e.confidence >= 1000
                /\ e.chosen.score * 20 \in 1000..9900 =>
                      e.confidence = e.chosen.score * 20
          /\ e.chosen.action = "HOLD" =>
                e.confidence >= 500 /\ e.confidence <= 2000
    /\ \A e1, e2 \in SimEvaluations :
          ( /\ e1.chosen.action = "HOLD" /\ e2.chosen.action = "HOLD"
            /\ e1.candidates # << >> /\ e2.candidates # << >>
            /\ e1.candidates[1].score > e2.candidates[1].score )
          => e1.confidence > e2.confidence

----------------------------------------------------------------------------
(* The Decision Engine on a short series *)

\* C32: an evaluation of the synthetic engine made while fewer than 5 candles
\* exist has no candidate, ends in HOLD, trades nothing and leaves the
\* ledger's books as they were; the replay variant holds no evaluation with
\* fewer than 5 revealed bars
C32_ShortSeriesHolds ==
    \A e \in LastEvaluations :
        IF e.engine = "sim"
        THEN e.candles < 5 =>
                /\ e.candidates = << >>
                /\ e.chosen.action = "HOLD"
                /\ e.ret = << >>
                /\ SameBooks(e.after, e.before)
        ELSE e.candles >= 5

\* an evaluation of the synthetic engine held in the fourth period
C32_Witness ==
    \E e \in LastEvaluations :
        e.engine = "sim" /\ e.candles = 4 /\ e.chosen.action = "HOLD"

----------------------------------------------------------------------------
(* The Decision Engine only reads the market *)

\* C33: an evaluation cycle of either engine variant leaves the market it
\* reads as it found it: prices, open bar, bar history, events, tick and day
\* counters, timers and play/pause status are the same after as before
C33_EvaluationReadsOnly ==
    \A e \in LastEvaluations : e.market.after = e.market.before

\* an evaluation of the synthetic engine that traded on a market with a
\* closed bar and an open one
C33_Witness ==
    \E e \in LastEvaluations :
        /\ e.engine = "sim" /\ e.ret # << >>
        /\ e.market.before.stocks[SymbolOrder[1]].history # << >>
        /\ e.market.before.stocks[SymbolOrder[1]].dayPrices > 0

----------------------------------------------------------------------------
(* Each ledger is changed by its own actor alone *)

LedgerNames == {"aiPortfolio", "userPortfolio", "realAiPortfolio", "realUserPortfolio"}

\* the step changes the books of ledger f
BooksChange(f) == ~SameBooks(app'[f], app[f])

\* the step resets ledger f
BooksReset(f) ==
    /\ app'[f].trades = << >> /\ app'[f].holdings = << >>
    /\ app'[f].cash = StartingCash

\* the step is one evaluation cycle that took ledger f from its books before
\* to its books after with one trade
EvaluationTrade(f) ==
    /\ evals'.last # << >>
    /\ evals'.last[1].ret # << >>
    /\ SameBooks(evals'.last[1].before, app[f])
    /\ SameBooks(evals'.last[1].after, app'[f])
    /\ evals'.last[1].engine = (IF f = "aiPortfolio" THEN "sim" ELSE "real")

\* C34: outside resets, a step that changes the books of one ledger leaves
\* the books of the three others alone; the books of an AI ledger change
\* only in an evaluation cycle of its engine, by one trade; the books of a
\* user's ledger change only in a step that holds no evaluation, by one
\* trade, in the mode the ledger belongs to
C34_OwnActorOnly ==
    [][ \A f \in LedgerNames :
          (BooksChange(f) /\ ~BooksReset(f)) =>
              /\ \A g \in LedgerNames \ {f} : ~BooksChange(g)
              /\ Len(app'[f].trades) = Len(app[f].trades) + 1
              /\ IF f \in {"aiPortfolio", "realAiPortfolio"}
                 THEN EvaluationTrade(f)
                 ELSE /\ evals' = evals
                      /\ app.mode = (IF f = "userPortfolio" THEN "sim" ELSE "real")
      ]_vars

\* the user and the Decision Engine both traded in synthetic mode
C34_Witness ==
    /\ app.userPortfolio.trades # << >>
    /\ app.aiPortfolio.trades # << >>

----------------------------------------------------------------------------
(* The indicators' warm-up *)

\* the result r has a value exactly from index warm on (indices from 0)
WarmsUpAt(r, n, warm) ==
    /\ DOMAIN r = 1..n
    /\ \A k \in 1..n : (r[k] = NoValue) <=> (k - 1 < warm)

\* C35: for a series of length n and a period p, SMA, EMA and each Bollinger
\* band have length n and no value exactly at the indices below p - 1, and
\* RSI has length n and no value exactly at the indices below p
C35_WarmUp ==
    LET n == Len(trace.data)
        p == trace.period
    IN  /\ WarmsUpAt(trace.SMA, n, p - 1)
        /\ WarmsUpAt(trace.EMA, n, p - 1)
        /\ WarmsUpAt(trace.BB.upper, n, p - 1)
        /\ WarmsUpAt(trace.BB.middle, n, p - 1)
        /\ WarmsUpAt(trace.BB.lower, n, p - 1)
        /\ WarmsUpAt(trace.RSI, n, p)

\* a series of five closes under period 3: the averages start at index 2
\* and RSI at index 3
C35_Witness ==
    /\ trace.period = 3 /\ Len(trace.data) = 5
    /\ trace.SMA[2] = NoValue /\ trace.SMA[3] # NoValue
    /\ trace.RSI[3] = NoValue /\ trace.RSI[4] # NoValue

\* C36: RSI is 100 at every index that has a value and whose smoothed average
\* loss is zero
C36_RsiHundredAtZeroLoss ==
    \A k \in 1..Len(trace.data) :
        ( /\ trace.RSI[k] # NoValue
          /\ RsiAverages(trace.data, trace.period, k - 1).losses = RatInt(0) )
        => trace.RSI[k][1] = RatInt(100)

----------------------------------------------------------------------------
(* The ledger's books balance *)

\* the sum over the holdings of qty x avgCost
RECURSIVE CostBasis(_, _)
CostBasis(holdings, syms) ==
    IF syms = {} THEN RatInt(0)
    ELSE LET s == CHOOSE x \in syms : TRUE
         IN  RatAdd(RatMulInt(holdings[s].avgCost, holdings[s].qty),
                    CostBasis(holdings, syms \ {s}))

\* every trade the ledger recorded has a positive quantity and price
PositiveTrades(p) ==
    \A i \in 1..Len(p.trades) : p.trades[i].qty > 0 /\ p.trades[i].price > 0

\* C37: after buys and sells of positive quantities at positive prices,
\* cash plus the cost basis of the holdings is the starting cash plus the
\* realized P&L of the SELL records, and the total P&L is the realized plus
\* the unrealized P&L under every price map that prices the held symbols
C37_BooksBalance ==
    PositiveTrades(pf) =>
        /\ RatAddInt(CostBasis(pf.holdings, DOMAIN pf.holdings), pf.cash)
             = RatAddInt(realizedPnL(pf), pf.startingCash)
        /\ \A pm \in PriceMaps :
              DOMAIN pf.holdings \subseteq DOMAIN pm =>
                  RatInt(totalPnL(pf, pm))
                    = RatAdd(realizedPnL(pf), unrealizedPnL(pf, pm))

\* part of a holding was sold at a gain or a loss and the rest is still held
C37_Witness ==
    /\ PositiveTrades(pf)
    /\ \E i \in 1..Len(pf.trades) :
          /\ pf.trades[i].side = "SELL" /\ pf.trades[i].pnl # RatInt(0)
          /\ Held(pf, pf.trades[i].symbol)

----------------------------------------------------------------------------
(* A chosen move is traded as it is *)

\* the ledger after is the ledger before with one record of the move appended
TradedAsChosen(e) ==
    /\ Len(e.after.trades) = Len(e.before.trades) + 1
    /\ SubSeq(e.after.trades, 1, Len(e.before.trades)) = e.before.trades
    /\ LET t == e.after.trades[Len(e.after.trades)]
       IN  /\ t.symbol = e.chosen.symbol /\ t.side = e.chosen.action
           /\ t.qty = e.chosen.qty /\ t.price = e.chosen.price
           /\ e.ret = << t >>

\* C38: an evaluation that chooses a BUY or SELL candidate appends exactly
\* one record to the AI ledger, with the candidate's symbol, side, quantity
\* and price, and the synthetic engine emits one 'trade' and then its
\* 'analysis'; an evaluation that holds appends no record and emits
\* 'analysis' alone
C38_ChosenMoveTraded ==
    \A e \in LastEvaluations :
        IF e.chosen.action \in {"BUY", "SELL"}
        THEN /\ TradedAsChosen(e)
             /\ e.engine = "sim" => e.signals = << "trade", "analysis" >>
        ELSE /\ e.after.trades = e.before.trades
             /\ e.ret = << >>
             /\ e.engine = "sim" => e.signals = << "analysis" >>

\* the synthetic engine sold a chosen SELL after it bought a chosen BUY
C38_Witness ==
    \E e \in SimEvaluations :
        /\ e.chosen.action = "SELL" /\ e.before.trades # << >>
        /\ e.signals = << "trade", "analysis" >>

----------------------------------------------------------------------------
(* One engine plays at a time *)

\* C39: after every step of the App one of the two engines is paused, and a
\* step that changes the mode leaves both engines paused
C39_OneEnginePlays ==
    [][ /\ sim'.paused \/ real'.paused
        /\ app'.mode # app.mode => sim'.paused /\ real'.paused ]_vars

\* the replay plays in real mode after the simulator played and ticked
C39_Witness ==
    /\ app.mode = "real" /\ ~real.paused
    /\ sim.tick > 0 /\ sim.paused

====
